---- MODULE Spec2Model ----
(***************************************************************************)
(* Release orchestration engine of build-cli: the FSL state machines, the  *)
(* layered state handlers (workflow command over CommandWithChecks over    *)
(* StateMachineCommand), and the state loop that drives them.              *)
(*                                                                         *)
(* Three command/machine pairings are modelled:                            *)
(*   "release" : ReleaseCommand2 over CommandWithChecks, driving the       *)
(*               patch-release machine (releaseMachine.ts);                *)
(*   "prep"    : PrepCommand over CommandWithChecks, driving the prep      *)
(*               machine (PrepReleaseMachineDefinition of the machines     *)
(*               index);                                                   *)
(*   "prep2"   : PrepCommand2 (prep2.ts) over CommandWithChecks, driving   *)
(*               the prep machine of machines/definitions.ts.              *)
(* A machine can also be driven directly by posting actions to it          *)
(* (mode "walk"), which is how the machine graphs themselves are examined. *)
(*                                                                         *)
(* Library behaviour relied on:                                            *)
(*   jssm   Machine.action(a) performs the transition and returns true     *)
(*          when the current state has an edge labelled a; otherwise it    *)
(*          leaves the state alone and returns false (it does not throw).  *)
(*   oclif  Command.exit(code = 0) throws ExitError(code): the process     *)
(*          ends with that code.  Command.error(msg) throws a CLIError:    *)
(*          the process ends with code 2 after printing msg.               *)
(***************************************************************************)
EXTENDS Integers, Sequences, FiniteSets, TLC

(***************************************************************************)
(* Bounds                                                                  *)
(***************************************************************************)
\* number of actions posted to a machine that is driven directly
MaxPosts == 12

(***************************************************************************)
(* The machines (Finite State Language)                                    *)
(***************************************************************************)
KnownActions == {"success", "failure"}

\* FSL chain  s1 'a' => s2 'a' => ... => sn : an edge labelled a between neighbours
ChainEdges(sts, a) == {<<sts[i], a, sts[i + 1]>> : i \in 1..(Len(sts) - 1)}

\* FSL list  [s1 s2 ...] 'a' => t
ListEdges(S, a, t) == {<<s, a, t>> : s \in S}

\* the chain with CheckPolicy and CheckBranchName in each other's place
ReleaseChain_reordered ==
    <<"Init", "CheckShouldRunChecks", "CheckValidReleaseGroup", "CheckBranchName",
      "CheckPolicy", "CheckHasRemote", "CheckBranchUpToDate",
      "CheckNoPrereleaseDependencies", "CheckIfCurrentReleaseGroupIsReleased",
      "DoReleaseGroupBumpPatch", "CheckShouldCommitBump", "PromptToPRBump">>

ReleaseChain ==
    <<"Init", "CheckShouldRunChecks", "CheckValidReleaseGroup", "CheckPolicy",
      "CheckBranchName", "CheckHasRemote", "CheckBranchUpToDate",
      "CheckNoPrereleaseDependencies", "CheckIfCurrentReleaseGroupIsReleased",
      "DoReleaseGroupBumpPatch", "CheckShouldCommitBump", "PromptToPRBump">>

\* the list without the bump
ReleaseFailList_partial ==
    {"CheckValidReleaseGroup", "CheckPolicy", "CheckBranchName", "CheckHasRemote",
     "CheckBranchUpToDate"}

ReleaseFailList ==
    {"CheckValidReleaseGroup", "CheckPolicy", "CheckBranchName", "CheckHasRemote",
     "CheckBranchUpToDate", "DoReleaseGroupBumpPatch"}

\* the dependency sub-flow of the machine that bumps in a single step
ReleaseDepsFlow_singleStep ==
    {<<"CheckNoPrereleaseDependencies", "failure", "DoBumpPrereleaseDependencies">>}
    \cup ChainEdges(<<"DoBumpPrereleaseDependencies", "CheckShouldCommitDeps",
                      "PromptToPRDeps">>, "success")

ReleaseDepsFlow ==
    {<<"CheckNoPrereleaseDependencies", "failure", "DoBumpReleasedDependencies">>}
    \cup ChainEdges(<<"DoBumpReleasedDependencies", "CheckNoMorePrereleaseDependencies",
                      "CheckShouldCommitDeps", "PromptToPRDeps">>, "success")
    \cup {<<"DoBumpReleasedDependencies", "failure", "CheckNoPrereleaseDependencies2">>,
          <<"CheckNoPrereleaseDependencies2", "failure", "PromptToReleaseDeps">>}
    \cup {<<"CheckNoMorePrereleaseDependencies", "failure", "PromptToReleaseDeps">>}
    \cup ChainEdges(<<"CheckNoPrereleaseDependencies2", "CheckShouldCommitReleasedDepsBump",
                      "PromptToPRReleasedDepsBump">>, "success")

ReleaseMachineDefinition ==
    ChainEdges(ReleaseChain, "success")
    \cup {<<"CheckShouldRunChecks", "failure", "CheckNoPrereleaseDependencies">>}
    \cup ListEdges(ReleaseFailList, "failure", "Failed")
    \cup ReleaseDepsFlow
    \cup {<<"CheckShouldCommitBump", "failure", "PromptToCommitBump">>}
    \cup {<<"CheckShouldCommitDeps", "failure", "PromptToCommitDeps">>}
    \cup {<<"CheckIfCurrentReleaseGroupIsReleased", "failure", "PromptToRelease">>}

PrepChain ==
    <<"Init", "CheckShouldRunChecks", "CheckValidReleaseGroup", "CheckPolicy",
      "CheckBranchName", "CheckHasRemote", "CheckBranchUpToDate",
      "CheckNoPrereleaseDependencies", "CheckReleaseBranchDoesNotExist",
      "CheckInstallBuildTools", "DoReleaseGroupBumpMinor", "CheckShouldCommitBump",
      "PromptToPRBump">>

PrepFailList ==
    {"Init", "CheckValidReleaseGroup", "CheckPolicy", "CheckBranchName", "CheckHasRemote",
     "CheckBranchUpToDate", "CheckReleaseBranchDoesNotExist", "CheckInstallBuildTools"}

PrepReleaseMachineDefinition ==
    ChainEdges(PrepChain, "success")
    \cup {<<"CheckShouldRunChecks", "failure", "CheckNoPrereleaseDependencies">>}
    \cup ListEdges(PrepFailList, "failure", "Failed")
    \cup {<<"CheckNoPrereleaseDependencies", "failure", "DoBumpReleasedDependencies">>}
    \cup ChainEdges(<<"DoBumpReleasedDependencies", "CheckNoMorePrereleaseDependencies",
                      "CheckShouldCommitDeps", "PromptToPRDeps">>, "success")
    \cup ListEdges({"DoReleaseGroupBumpMinor"}, "failure", "Failed")
    \cup {<<"CheckShouldCommitBump", "failure", "PromptToCommitBump">>}
    \cup {<<"CheckShouldCommitDeps", "failure", "PromptToCommitDeps">>}
    \cup {<<"CheckNoMorePrereleaseDependencies", "failure", "PromptToReleaseDeps">>}

\* machines/definitions.ts: the prep machine that prep2.ts imports
Prep2FailList ==
    {"Init", "CheckValidReleaseGroup", "CheckPolicy", "CheckBranchName", "CheckHasRemote",
     "CheckBranchUpToDate", "CheckReleaseBranchDoesNotExist", "CheckInstallBuildTools"}

PrepReleaseMachineDefinition2 ==
    ChainEdges(PrepChain, "success")
    \cup {<<"CheckShouldRunChecks", "failure", "CheckNoPrereleaseDependencies">>}
    \cup ListEdges(Prep2FailList, "failure", "Failed")
    \cup {<<"CheckNoPrereleaseDependencies", "failure", "DoBumpPrereleaseDependencies">>}
    \cup ChainEdges(<<"DoBumpPrereleaseDependencies", "CheckShouldCommitDeps",
                      "PromptToPRDeps">>, "success")
    \cup ListEdges({"DoBumpPrereleaseDependencies", "DoReleaseGroupBumpMinor"},
                   "failure", "Failed")
    \cup {<<"CheckShouldCommitBump", "failure", "PromptToCommitBump">>}
    \cup {<<"CheckShouldCommitDeps", "failure", "PromptToCommitDeps">>}

Commands == {"release", "prep", "prep2"}

\* the machine field of each command
machine(c) ==
    CASE c = "release" -> ReleaseMachineDefinition
      [] c = "prep"    -> PrepReleaseMachineDefinition
      [] c = "prep2"   -> PrepReleaseMachineDefinition2

\* jssm Machine.states()
states(m) == {e[1] : e \in m} \cup {e[3] : e \in m}

\* jssm Machine.list_actions()
list_actions(m) == {e[2] : e \in m}

\* ReleaseMachine.knownStates
ReleaseMachine_knownStates ==
    {"Init", "Failed", "CheckBranchName", "CheckBranchUpToDate", "CheckHasRemote",
     "CheckIfCurrentReleaseGroupIsReleased", "CheckNoPrereleaseDependencies",
     "CheckNoMorePrereleaseDependencies", "CheckPolicy", "CheckShouldCommitBump",
     "CheckShouldCommitDeps", "CheckShouldRunChecks", "CheckValidReleaseGroup",
     "DoBumpReleasedDependencies", "DoReleaseGroupBumpPatch", "PromptToCommitBump",
     "PromptToCommitDeps", "PromptToPRBump", "PromptToPRDeps", "PromptToRelease",
     "PromptToReleaseDeps"}

\* PrepReleaseMachine.knownStates
PrepReleaseMachine_knownStates ==
    {"Init", "Failed", "CheckBranchName", "CheckBranchUpToDate", "CheckHasRemote",
     "CheckInstallBuildTools", "CheckNoPrereleaseDependencies", "CheckPolicy",
     "CheckReleaseBranchDoesNotExist", "CheckShouldCommitBump", "CheckShouldCommitDeps",
     "CheckShouldRunChecks", "CheckValidReleaseGroup", "DoBumpPrereleaseDependencies",
     "DoReleaseGroupBumpMinor", "PromptToCommitBump", "PromptToCommitDeps",
     "PromptToPRBump", "PromptToPRDeps"}

\* the knownStates field of the machine each command is given
knownStates(c) ==
    IF c = "release" THEN ReleaseMachine_knownStates ELSE PrepReleaseMachine_knownStates

\* jssm Machine.state_is_terminal(s): no edge leaves s
state_is_terminal(m, s) == ~\E e \in m : e[1] = s

\* the state after jssm Machine.action(a) is called in state s
action(m, s, a) ==
    LET exits == {e \in m : e[1] = s /\ e[2] = a}
    IN  IF exits = {} THEN s ELSE (CHOOSE e \in exits : TRUE)[3]

(***************************************************************************)
(* The package graph seen from the unit being released                     *)
(***************************************************************************)
\* Names that may appear in the combined dependencies of the unit's packages:
\*   own   a package of the unit itself
\*   tools an independent package of the repository (no release group)
\*   srv1  a package of the release group "server"
\*   ext   a package that is not in the repository
DepNames == {"own", "tools", "srv1", "ext"}

\* the range a dependency is declared with: absent, a released version
\* ("2.0.0"), or a version with a pre-release section ("2.0.0-dev.1")
Ranges == {"none", "rel", "pre"}

\* Package.monoRepo?.kind of the repository's other packages
monoRepo(n) == IF n \in {"srv1", "srv2"} THEN "server" ELSE "undefined"

\* context.packagesNotInReleaseGroup(unit): names of the repository's other packages
packagesNotInReleaseGroup == {"tools", "srv1", "srv2"}

\* context.packagesInReleaseGroup(rg): names of the packages of release group rg
packagesInReleaseGroup(rg) == IF rg = "server" THEN {"srv1", "srv2"} ELSE {}

\* a test that takes every declared range for a pre-release
minVersionIsPrerelease_always(r) == r # "none"

\* semver.minVersion(range).prerelease.length > 0
minVersionIsPrerelease(r) == r = "pre"

\* isReleaseGroup(x): x is one of the MonoRepoKind names
isReleaseGroup(rg) == rg \in {"client", "server", "azure", "build-tools"}

\* isEmpty as the function computes it
isEmptyOf(groups, pkgs) == Cardinality(groups) > 0 \/ Cardinality(pkgs) > 0

\* a variant that resolves what it flags in the manifests as it goes
getPreReleaseDependencies_rewrites(range) ==
    LET flagged == {n \in DepNames : /\ range[n] # "none"
                                     /\ n \in packagesNotInReleaseGroup
                                     /\ minVersionIsPrerelease(range[n])}
        prereleaseGroups   == {monoRepo(n) : n \in {x \in flagged : monoRepo(x) # "undefined"}}
        prereleasePackages == {n \in flagged : monoRepo(n) = "undefined"}
    IN  [releaseGroups |-> prereleaseGroups,
         packages      |-> prereleasePackages,
         isEmpty       |-> isEmptyOf(prereleaseGroups, prereleasePackages),
         range         |-> [n \in DepNames |-> IF n \in flagged THEN "rel" ELSE range[n]]]

\* the report of the call, and in range the manifests as the call leaves them
getPreReleaseDependencies(range) ==
    LET flagged == {n \in DepNames : /\ range[n] # "none"
                                     /\ n \in packagesNotInReleaseGroup
                                     /\ minVersionIsPrerelease(range[n])}
        prereleaseGroups   == {monoRepo(n) : n \in {x \in flagged : monoRepo(x) # "undefined"}}
        prereleasePackages == {n \in flagged : monoRepo(n) = "undefined"}
    IN  [releaseGroups |-> prereleaseGroups,
         packages      |-> prereleasePackages,
         isEmpty       |-> isEmptyOf(prereleaseGroups, prereleasePackages),
         range         |-> range]

\* npmCheckUpdates(context, unit, depsToUpdate, "current", prerelease, writeChanges):
\* reg is the set of names for which the registry has a newer version; a
\* dependency is upgraded when it is named by the filter and the registry has
\* news for it; with writeChanges the manifests take the new (released) range.
npmCheckUpdates(range, depsToUpdate, reg, writeChanges) ==
    LET upgraded == {n \in DepNames : /\ range[n] # "none"
                                      /\ n \in depsToUpdate
                                      /\ n \in reg}
    IN  [updatedPackages     |-> IF upgraded = {} THEN {} ELSE {"own"},
         updatedDependencies |-> upgraded,
         range               |-> IF writeChanges
                                 THEN [n \in DepNames |-> IF n \in upgraded THEN "rel"
                                                          ELSE range[n]]
                                 ELSE range]

\* lib/sets difference(a, b)
difference(a, b) == a \ b

(***************************************************************************)
(* State                                                                   *)
(***************************************************************************)
VARIABLES
    mode,                    \* "loop": a command runs its state loop; "walk": a machine is
                             \* driven directly; "calc": version functions are called;
                             \* "names": naming functions are called; "handle": a command
                             \* handles one state its machine was driven to
    cmd,                     \* the command (and with it the machine)
    state,                   \* machine.state()
    flags,                   \* the processed command-line flags
    shouldSkipChecks,
    shouldCheckPolicy,
    shouldCheckBranch,
    shouldCommit,
    shouldCheckBranchUpdate,
    depRange,                \* the declared range of each name in the unit's manifests
    status,                  \* "constructed", "running", "exited", "error", "assert", "threw",
                             \* "initError", "walk", "calc"
    exitCode,                \* the process exit code, -1 while the process runs
    message,                 \* the text of the fatal error, as its parts
    handled,                 \* one record per handler invocation of the state loop: the state
                             \* handled, the collaborator's answer, whether it was asked for,
                             \* the actions posted and what each did, how the invocation ended,
                             \* the manifests it started from, the pre-release dependency
                             \* report it asked for (if any), its git operations
    trail,                   \* one record per machine.action call: from, action, to
    gitLog,                  \* the branch-creating and committing git calls made so far
    bumped,                  \* bumpReleaseGroup has rewritten the unit's manifests
    version,                 \* the version the version arithmetic starts from
    calls,                   \* one record per call of a version function: op, versionBump,
                             \* arg, result, and the version the next call is made on; or
                             \* one record per call of a naming function: op, unit, version,
                             \* the remote's tags when it was called, result
    tags                     \* the tag names the remote has and the ones the clone has

vars == <<mode, cmd, state, flags, shouldSkipChecks, shouldCheckPolicy, shouldCheckBranch,
          shouldCommit, shouldCheckBranchUpdate, depRange, status, exitCode, message,
          handled, trail, gitLog, bumped, version, calls, tags>>

(***************************************************************************)
(* What one handler invocation does                                        *)
(*   posts      the actions it posts, in order                             *)
(*   end        "return" (returns true), "exit" (this.exit()), "assert"    *)
(*              (an assertion fails), "unhandled" (returns false),         *)
(*              "throw" (a call it awaits rejects)                         *)
(*   evaluated  whether the gate's real predicate was evaluated            *)
(*   git        the git calls it makes                                     *)
(*   range      the manifests' ranges when it is done                      *)
(*   bump       whether it calls bumpReleaseGroup                          *)
(*   report     the pre-release dependency report it asked for, if any     *)
(*   updated    the packages npmCheckUpdates reported updated (its last    *)
(*              call), if the handler called it                            *)
(*   reload     whether it calls context.repo.reload()                     *)
(*   remaining  the pending release groups and packages the advisory       *)
(*              npmCheckUpdates call showed no update for                  *)
(*   wrote      whether it calls npmCheckUpdates with writeChanges = true   *)
(* ans is what the collaborator answers (or would answer) for the gate's   *)
(* predicate; reg is what the registry has newer versions of.              *)
(***************************************************************************)
Returns(posts) ==
    [posts |-> posts, end |-> "return", evaluated |-> FALSE, git |-> <<>>,
     range |-> depRange, bump |-> FALSE, report |-> <<>>, updated |-> {},
     reload |-> FALSE, remaining |-> {}, wrote |-> FALSE]

\* a handler that asked for the pre-release dependency report r
Reports(out, r) == [out EXCEPT !.report = <<r>>, !.range = r.range]

Evaluates(posts) == [Returns(posts) EXCEPT !.evaluated = TRUE]

\* a handler that prints its prompt and returns
Exits_returns == Returns(<<>>)

\* this.exit()
Exits == [Returns(<<>>) EXCEPT !.end = "exit"]

NotHandled == [Returns(<<>>) EXCEPT !.end = "unhandled"]

(************************ StateMachineCommand ******************************)
StateMachineCommand_handleState(st) ==
    IF st = "Failed" THEN Exits ELSE NotHandled

(************************ CommandWithChecks ********************************)
InitCase == Returns(<<"success">>)

CheckShouldRunChecks ==
    IF shouldSkipChecks THEN Returns(<<"failure", "success">>)
                        ELSE Returns(<<"success">>)

CheckValidReleaseGroup ==
    IF isReleaseGroup(flags.releaseGroup) THEN Returns(<<"success">>)
                                          ELSE Returns(<<"failure">>)

\* a handler that returns true without posting
CheckPolicy_silent == Returns(<<>>)

\* the automated policy check is not implemented: neither branch runs a predicate
CheckPolicy == Returns(<<"success">>)

\* ans: checkBranchName(context.originalBranchName)
CheckBranchName(ans) ==
    IF shouldCheckBranch
    THEN IF ~ans THEN Evaluates(<<"failure", "success">>)
                 ELSE Evaluates(<<"success">>)
    ELSE Returns(<<"success">>)

\* ans: getRemote(...) !== undefined
CheckHasRemote(ans) ==
    IF ~ans THEN Evaluates(<<"failure", "success">>)
            ELSE Evaluates(<<"success">>)

\* ans: isBranchUpToDate(...), asked before the flag is looked at
CheckBranchUpToDate(ans) ==
    IF shouldCheckBranchUpdate
    THEN IF ~ans THEN Evaluates(<<"failure", "success">>)
                 ELSE Evaluates(<<"success">>)
    ELSE Evaluates(<<"success">>)

\* CheckNoPrereleaseDependencies, CheckNoPrereleaseDependencies2,
\* CheckNoMorePrereleaseDependencies
CheckNoPrereleaseDependencies ==
    LET report == getPreReleaseDependencies(depRange)
    IN  IF report.isEmpty THEN Reports(Evaluates(<<"success">>), report)
                          ELSE Reports(Evaluates(<<"failure">>), report)

\* a handler that does not look at what it was given and writes whatever the
\* registry has
DoBumpReleasedDependencies_writesUnchecked(reg) ==
    LET report == getPreReleaseDependencies(depRange)
        packagesToBump ==
            report.packages \cup UNION {packagesInReleaseGroup(rg) : rg \in report.releaseGroups}
        advisory == npmCheckUpdates(report.range, packagesToBump, reg, FALSE)
        updatedReleaseGroups ==
            {monoRepo(p) : p \in {x \in advisory.updatedDependencies : monoRepo(x) # "undefined"}}
        updatedDeps == {p \in advisory.updatedDependencies : monoRepo(p) = "undefined"}
        result == npmCheckUpdates(report.range, packagesToBump, reg, TRUE)
        called == [Reports(Evaluates(<<>>), report)
                      EXCEPT !.range = result.range, !.updated = result.updatedPackages,
                             !.remaining = difference(report.releaseGroups, updatedReleaseGroups)
                                               \cup difference(report.packages, updatedDeps),
                             !.wrote = TRUE]
    IN  IF result.updatedPackages # {}
        THEN [called EXCEPT !.posts = <<"failure">>, !.reload = TRUE]
        ELSE [called EXCEPT !.posts = <<"success">>]

\* a handler that calls every registry result a failure
DoBumpReleasedDependencies_alwaysFailure(reg) ==
    LET report == getPreReleaseDependencies(depRange)
    IN  IF report.isEmpty
        THEN [Reports(Evaluates(<<>>), report) EXCEPT !.end = "assert"]
        ELSE [Reports(Evaluates(<<"failure">>), report) EXCEPT !.reload = TRUE]

DoBumpReleasedDependencies(reg) ==
    LET report == getPreReleaseDependencies(depRange)
        packagesToBump ==
            report.packages \cup UNION {packagesInReleaseGroup(rg) : rg \in report.releaseGroups}
        advisory == npmCheckUpdates(report.range, packagesToBump, reg, FALSE)
        updatedReleaseGroups ==
            {monoRepo(p) : p \in {x \in advisory.updatedDependencies : monoRepo(x) # "undefined"}}
        updatedDeps == {p \in advisory.updatedDependencies : monoRepo(p) = "undefined"}
        remainingReleaseGroupsToBump == difference(report.releaseGroups, updatedReleaseGroups)
        remainingPackagesToBump == difference(report.packages, updatedDeps)
        writes == remainingReleaseGroupsToBump = {} /\ remainingPackagesToBump = {}
        result == IF writes
                  THEN npmCheckUpdates(report.range, packagesToBump, reg, TRUE)
                  ELSE advisory
        called == [Reports(Evaluates(<<>>), report)
                      EXCEPT !.range = result.range, !.updated = result.updatedPackages,
                             !.remaining = remainingReleaseGroupsToBump
                                               \cup remainingPackagesToBump,
                             !.wrote = writes]
    IN  IF report.isEmpty
        THEN [Reports(Evaluates(<<>>), report) EXCEPT !.end = "assert"]
        ELSE IF result.updatedPackages # {}
             THEN [called EXCEPT !.posts = <<"failure">>, !.reload = TRUE]
             ELSE [called EXCEPT !.posts = <<"success">>]

\* ans: getShaForBranch(releaseBranch) === undefined
CheckReleaseBranchDoesNotExist(ans) ==
    IF ~ans THEN Evaluates(<<"failure", "success">>)
            ELSE Evaluates(<<"success">>)

\* a handler that goes on to the bump whatever isReleased answers
CheckIfCurrentReleaseGroupIsReleased_ignoresAnswer(ans) == Evaluates(<<"success">>)

\* ans: isReleased(context, releaseGroup)
CheckIfCurrentReleaseGroupIsReleased(ans) ==
    IF ans THEN Evaluates(<<"success">>) ELSE Evaluates(<<"failure">>)

\* a handler that treats a declined commit as done
CheckShouldCommitBump_declinedIsDone ==
    IF ~shouldCommit
    THEN Returns(<<"success">>)
    ELSE IF ~isReleaseGroup(flags.releaseGroup)
         THEN [Returns(<<>>) EXCEPT !.end = "assert"]
         ELSE [Returns(<<"success">>) EXCEPT !.git = <<"createBranch", "commit">>]

\* a handler that commits whether or not committing is wanted
CheckShouldCommitBump_alwaysCommits ==
    IF ~isReleaseGroup(flags.releaseGroup)
    THEN [Returns(<<>>) EXCEPT !.end = "assert"]
    ELSE [Returns(<<"success">>) EXCEPT !.git = <<"createBranch", "commit">>]

\* CheckShouldCommitBump, CheckShouldCommitDeps
CheckShouldCommitBump ==
    IF ~shouldCommit
    THEN Returns(<<"failure">>)
    ELSE IF ~isReleaseGroup(flags.releaseGroup)
         THEN [Returns(<<>>) EXCEPT !.end = "assert"]
         ELSE [Returns(<<"success">>) EXCEPT !.git = <<"createBranch", "commit">>]

CheckShouldCommitReleasedDepsBump ==
    LET first == IF ~shouldCommit THEN <<"success">> ELSE <<>>
    IN  IF ~isReleaseGroup(flags.releaseGroup)
        THEN [Returns(first) EXCEPT !.end = "assert"]
        ELSE [Returns(first \o <<"success">>) EXCEPT !.git = <<"createBranch", "commit">>]

\* the case labels of CommandWithChecks.handleState
ChecksCases ==
    {"Init", "CheckShouldRunChecks", "CheckValidReleaseGroup", "CheckPolicy",
     "CheckBranchName", "CheckHasRemote", "CheckBranchUpToDate",
     "CheckNoMorePrereleaseDependencies", "CheckNoPrereleaseDependencies2",
     "CheckNoPrereleaseDependencies", "DoBumpReleasedDependencies",
     "CheckReleaseBranchDoesNotExist", "CheckIfCurrentReleaseGroupIsReleased",
     "CheckShouldCommitBump", "CheckShouldCommitDeps", "CheckShouldCommitReleasedDepsBump",
     "PromptToCommitBump", "PromptToCommitDeps", "PromptToCommitReleasedDepsBump",
     "PromptToReleaseDeps"}

CommandWithChecks_handleState(st, ans, reg) ==
    CASE st = "Init" -> InitCase
      [] st = "CheckShouldRunChecks" -> CheckShouldRunChecks
      [] st = "CheckValidReleaseGroup" -> CheckValidReleaseGroup
      [] st = "CheckPolicy" -> CheckPolicy
      [] st = "CheckBranchName" -> CheckBranchName(ans)
      [] st = "CheckHasRemote" -> CheckHasRemote(ans)
      [] st = "CheckBranchUpToDate" -> CheckBranchUpToDate(ans)
      [] st \in {"CheckNoMorePrereleaseDependencies", "CheckNoPrereleaseDependencies2",
                 "CheckNoPrereleaseDependencies"} -> CheckNoPrereleaseDependencies
      [] st = "DoBumpReleasedDependencies" -> DoBumpReleasedDependencies(reg)
      [] st = "CheckReleaseBranchDoesNotExist" -> CheckReleaseBranchDoesNotExist(ans)
      [] st = "CheckIfCurrentReleaseGroupIsReleased" -> CheckIfCurrentReleaseGroupIsReleased(ans)
      [] st \in {"CheckShouldCommitBump", "CheckShouldCommitDeps"} -> CheckShouldCommitBump
      [] st = "CheckShouldCommitReleasedDepsBump" -> CheckShouldCommitReleasedDepsBump
      [] st \in {"PromptToCommitBump", "PromptToCommitDeps", "PromptToCommitReleasedDepsBump",
                 "PromptToReleaseDeps"} -> Exits
      [] OTHER -> StateMachineCommand_handleState(st)

(************************ ReleaseCommand2 **********************************)
DoReleaseGroupBumpPatch ==
    IF ~isReleaseGroup(flags.releaseGroup)
    THEN Returns(<<"failure">>)
    ELSE [Returns(<<"success">>) EXCEPT !.bump = TRUE]

ReleaseCases ==
    {"DoReleaseGroupBumpPatch", "PromptToPRBump", "PromptToPRDeps", "PromptToCommitBump",
     "PromptToCommitDeps", "PromptToRelease"}

ReleaseCommand2_handleState(st, ans, reg) ==
    CASE st = "DoReleaseGroupBumpPatch" -> DoReleaseGroupBumpPatch
      [] st \in {"PromptToPRBump", "PromptToPRDeps", "PromptToCommitBump",
                 "PromptToCommitDeps", "PromptToRelease"} -> Exits
      [] OTHER -> CommandWithChecks_handleState(st, ans, reg)

(************************ PrepCommand / PrepCommand2 ***********************)
\* ans: getShaForBranch(releaseBranch) === undefined
CheckReleaseBranch(ans) ==
    IF ~ans THEN Evaluates(<<"failure", "success">>)
            ELSE Evaluates(<<"success">>)

\* ans: the build-tools install reported no error
CheckInstallBuildTools(ans) ==
    IF ~ans THEN Evaluates(<<"failure", "success">>)
            ELSE Evaluates(<<"success">>)

\* ans: FluidRepo.ensureInstalled(...) after the bump
DoReleaseGroupBumpMinor(ans) ==
    IF ~ans THEN [Evaluates(<<"failure", "success">>) EXCEPT !.bump = TRUE]
            ELSE [Evaluates(<<"success">>) EXCEPT !.bump = TRUE]

PrepCases ==
    {"PromptToCommitBump", "PromptToCommitDeps", "CheckReleaseBranch",
     "CheckInstallBuildTools", "DoReleaseGroupBumpMinor", "PromptToPRBump", "PromptToPRDeps"}

PrepCommand_handleState(st, ans, reg) ==
    CASE st \in {"PromptToCommitBump", "PromptToCommitDeps", "PromptToPRBump",
                 "PromptToPRDeps"} -> Exits
      [] st = "CheckReleaseBranch" -> CheckReleaseBranch(ans)
      [] st = "CheckInstallBuildTools" -> CheckInstallBuildTools(ans)
      [] st = "DoReleaseGroupBumpMinor" -> DoReleaseGroupBumpMinor(ans)
      [] OTHER -> CommandWithChecks_handleState(st, ans, reg)

Prep2Cases ==
    {"PromptToPR", "PromptToCommit", "CheckReleaseBranch", "CheckInstallBuildTools",
     "DoReleaseGroupBump", "PromptToPRBump"}

PrepCommand2_handleState(st, ans, reg) ==
    CASE st \in {"PromptToPR", "PromptToCommit", "PromptToPRBump"} -> Exits
      [] st = "CheckReleaseBranch" -> CheckReleaseBranch(ans)
      [] st = "CheckInstallBuildTools" -> CheckInstallBuildTools(ans)
      [] st = "DoReleaseGroupBump" -> DoReleaseGroupBumpMinor(ans)
      [] OTHER -> CommandWithChecks_handleState(st, ans, reg)

\* the case labels of the command's own handleState
LocalCases(c) ==
    CASE c = "release" -> ReleaseCases
      [] c = "prep"    -> PrepCases
      [] c = "prep2"   -> Prep2Cases

\* this.handleState(state) of command c
handleState(c, st, ans, reg) ==
    CASE c = "release" -> ReleaseCommand2_handleState(st, ans, reg)
      [] c = "prep"    -> PrepCommand_handleState(st, ans, reg)
      [] c = "prep2"   -> PrepCommand2_handleState(st, ans, reg)

\* the states whose handler consults a collaborator for a yes/no answer, or
\* stands in for a predicate that has one
Gates ==
    {"CheckPolicy", "CheckBranchName", "CheckHasRemote", "CheckBranchUpToDate",
     "CheckReleaseBranchDoesNotExist", "CheckReleaseBranch",
     "CheckIfCurrentReleaseGroupIsReleased", "CheckInstallBuildTools",
     "DoReleaseGroupBumpMinor", "DoReleaseGroupBump"}

Answers(st) == IF st \in Gates THEN BOOLEAN ELSE {TRUE}

Registries(st) ==
    IF st = "DoBumpReleasedDependencies" THEN SUBSET {"tools", "srv1"} ELSE {{}}

\* one awaited GitRepo / package-graph call of a handler: how many actions the
\* handler has posted when it makes the call, the branch-creating and committing
\* git calls completed before it, whether the manifests are rewritten before it
Awaited(call, posted, git, bump) ==
    [call |-> call, posted |-> posted, git |-> git, bump |-> bump]

\* the awaited calls of the command's own case for st, in order
LocalAwaits(c, st) ==
    CASE st = "DoReleaseGroupBumpPatch" ->
            IF isReleaseGroup(flags.releaseGroup)
            THEN <<Awaited("bumpReleaseGroup", 0, <<>>, FALSE)>>
            ELSE <<>>
      [] st \in {"PromptToPRDeps", "PromptToPR"} \/ (st = "PromptToPRBump" /\ c = "release") ->
            <<Awaited("getCurrentBranchName", 0, <<>>, FALSE)>>
      [] st = "CheckReleaseBranch" -> <<Awaited("getShaForBranch", 0, <<>>, FALSE)>>
      [] st = "CheckInstallBuildTools" -> <<Awaited("install", 0, <<>>, FALSE)>>
      [] st \in {"DoReleaseGroupBumpMinor", "DoReleaseGroupBump"} ->
            <<Awaited("bumpReleaseGroup", 0, <<>>, FALSE),
              Awaited("ensureInstalled", 0, <<>>, TRUE)>>
      [] OTHER -> <<>>

\* the awaited calls of the CommandWithChecks case for st, in order; out is
\* what the handler does when every call succeeds
ChecksAwaits(st, out) ==
    CASE st = "CheckHasRemote" -> <<Awaited("getRemote", 0, <<>>, FALSE)>>
      [] st = "CheckBranchUpToDate" ->
            <<Awaited("getRemote", 0, <<>>, FALSE),
              Awaited("isBranchUpToDate", 0, <<>>, FALSE)>>
      [] st \in {"CheckNoMorePrereleaseDependencies", "CheckNoPrereleaseDependencies2",
                 "CheckNoPrereleaseDependencies", "PromptToReleaseDeps"} ->
            <<Awaited("getPreReleaseDependencies", 0, <<>>, FALSE)>>
      [] st = "DoBumpReleasedDependencies" ->
            <<Awaited("getPreReleaseDependencies", 0, <<>>, FALSE)>>
            \o (IF out.end = "assert" THEN <<>>
                ELSE <<Awaited("npmCheckUpdates", 0, <<>>, FALSE)>>)
            \o (IF out.posts = <<"failure">> THEN <<Awaited("reload", 1, <<>>, FALSE)>>
                ELSE <<>>)
      [] st = "CheckReleaseBranchDoesNotExist" ->
            <<Awaited("getShaForBranch", 0, <<>>, FALSE)>>
      [] st = "CheckIfCurrentReleaseGroupIsReleased" ->
            <<Awaited("isReleased", 0, <<>>, FALSE)>>
      [] st \in {"CheckShouldCommitBump", "CheckShouldCommitDeps"} ->
            IF out.git = <<>> THEN <<>>
            ELSE <<Awaited("createBumpBranch", 0, <<>>, FALSE),
                   Awaited("commit", 0, <<"createBranch">>, FALSE)>>
      [] st = "CheckShouldCommitReleasedDepsBump" ->
            IF out.git = <<>> THEN <<>>
            ELSE <<Awaited("createBranch", Len(out.posts) - 1, <<>>, FALSE),
                   Awaited("commit", Len(out.posts) - 1, <<"createBranch">>, FALSE)>>
      [] OTHER -> <<>>

\* the awaited calls of this.handleState(state) of command c
Awaits(c, st, out) ==
    IF st \in LocalCases(c) THEN LocalAwaits(c, st) ELSE ChecksAwaits(st, out)

\* what the invocation has done when its awaited call rejects
Rejected(out, call) ==
    [out EXCEPT !.posts = SubSeq(out.posts, 1, call.posted),
                !.end = "throw",
                !.git = call.git,
                !.bump = call.bump,
                !.range = IF call.call = "reload" THEN out.range ELSE depRange,
                !.updated = IF call.call = "reload" THEN out.updated ELSE {},
                !.reload = FALSE,
                !.remaining = IF call.call = "reload" THEN out.remaining ELSE {},
                !.wrote = IF call.call = "reload" THEN out.wrote ELSE FALSE]

(***************************************************************************)
(* The state loop                                                          *)
(***************************************************************************)
RECURSIVE PostAll(_, _, _)
\* the machine.action calls of one handler, in order: from, action, to
PostAll(m, s, posts) ==
    IF posts = <<>> THEN <<>>
    ELSE LET to == action(m, s, Head(posts))
         IN  <<[from |-> s, action |-> Head(posts), to |-> to]>> \o PostAll(m, to, Tail(posts))

StateAfter(s, steps) == IF steps = <<>> THEN s ELSE steps[Len(steps)].to

Invocation(st, ans, out, steps) ==
    [state |-> st, ans |-> ans, evaluated |-> out.evaluated, posts |-> out.posts,
     steps |-> steps, end |-> out.end, graph |-> depRange, report |-> out.report,
     git |-> out.git, bump |-> out.bump, updated |-> out.updated,
     reload |-> out.reload, remaining |-> out.remaining, wrote |-> out.wrote]

\* a loop that logs the unhandled state and goes round again
UnhandledState_logged(st) ==
    [status |-> "running", exitCode |-> exitCode, message |-> <<"Unhandled state: ", st>>]

\* stateLoop: handled is false
UnhandledState(st) ==
    [status |-> "error", exitCode |-> 2, message |-> <<"Unhandled state: ", st>>]

\* a loop that catches what a handler throws and goes round again
Thrown_caught(end) ==
    CASE end = "exit"   -> [status |-> "exited", exitCode |-> 0]
      [] end = "assert" -> [status |-> "assert", exitCode |-> 1]
      [] end = "throw"  -> [status |-> "running", exitCode |-> exitCode]

\* how a handler that does not return ends the process
Thrown(end) ==
    CASE end = "exit"   -> [status |-> "exited", exitCode |-> 0]
      [] end = "assert" -> [status |-> "assert", exitCode |-> 1]
      [] end = "throw"  -> [status |-> "threw", exitCode |-> 1]

Apply(ans, out) ==
    LET steps == PostAll(machine(cmd), state, out.posts)
    IN  /\ state' = StateAfter(state, steps)
        /\ trail' = trail \o steps
        /\ handled' = Append(handled, Invocation(state, ans, out, steps))
        /\ gitLog' = gitLog \o out.git
        /\ depRange' = out.range
        /\ bumped' = (bumped \/ out.bump)

Unchanged_config ==
    UNCHANGED <<mode, cmd, flags, shouldSkipChecks, shouldCheckPolicy, shouldCheckBranch,
                shouldCommit, shouldCheckBranchUpdate, version, calls, tags>>

\* a flag taken as it is given
Gated_ungated(flag, skipChecks) == flag

\* flags.<check> && !flags.skipChecks
Gated(flag, skipChecks) == flag /\ ~skipChecks

\* CommandWithChecks.init and the command's init
CommandInit ==
    /\ mode = "loop"
    /\ status = "constructed"
    /\ shouldSkipChecks' = flags.skipChecks
    /\ shouldCheckPolicy' = Gated(flags.policyCheck, flags.skipChecks)
    /\ shouldCheckBranch' = Gated(flags.branchCheck, flags.skipChecks)
    /\ shouldCommit' = Gated(flags.commit, flags.skipChecks)
    /\ shouldCheckBranchUpdate' = Gated(flags.updateCheck, flags.skipChecks)
    /\ IF isReleaseGroup(flags.releaseGroup)
       THEN status' = "running" /\ exitCode' = exitCode
       ELSE status' = "initError" /\ exitCode' = 1
    /\ UNCHANGED <<mode, cmd, state, flags, depRange, message, handled, trail, gitLog, bumped,
                   version, calls, tags>>

\* one iteration of stateLoop whose handler returns true
StateLoopHandled ==
    /\ mode = "loop"
    /\ status = "running"
    /\ \E ans \in Answers(state), reg \in Registries(state) :
          LET out == handleState(cmd, state, ans, reg)
          IN  /\ out.end = "return"
              /\ Apply(ans, out)
    /\ UNCHANGED <<status, exitCode, message>>
    /\ Unchanged_config

\* one iteration of stateLoop whose handler ends the process
StateLoopEnds ==
    /\ mode = "loop"
    /\ status = "running"
    /\ \E ans \in Answers(state), reg \in Registries(state) :
          LET out == handleState(cmd, state, ans, reg)
          IN  /\ out.end \in {"exit", "assert"}
              /\ Apply(ans, out)
              /\ status' = Thrown(out.end).status
              /\ exitCode' = Thrown(out.end).exitCode
    /\ UNCHANGED message
    /\ Unchanged_config

\* one iteration of stateLoop whose handler returns false
StateLoopUnhandled ==
    /\ mode = "loop"
    /\ status = "running"
    /\ \E ans \in Answers(state), reg \in Registries(state) :
          LET out == handleState(cmd, state, ans, reg)
          IN  /\ out.end = "unhandled"
              /\ Apply(ans, out)
              /\ status' = UnhandledState(state).status
              /\ exitCode' = UnhandledState(state).exitCode
              /\ message' = UnhandledState(state).message
    /\ Unchanged_config

\* one iteration of stateLoop in which a call awaited by the handler rejects:
\* neither handleState nor stateLoop catches, so the error leaves run()
StateLoopThrows ==
    /\ mode = "loop"
    /\ status = "running"
    /\ \E ans \in Answers(state), reg \in Registries(state) :
          LET out == handleState(cmd, state, ans, reg)
              awaits == Awaits(cmd, state, out)
          IN  \E k \in 1..Len(awaits) :
                 /\ Apply(ans, Rejected(out, awaits[k]))
                 /\ status' = Thrown("throw").status
                 /\ exitCode' = Thrown("throw").exitCode
    /\ UNCHANGED message
    /\ Unchanged_config

\* machine.action(a) called on a machine that is driven directly
Post ==
    /\ mode = "walk"
    /\ Len(trail) < MaxPosts
    /\ \E a \in KnownActions :
          LET steps == PostAll(machine(cmd), state, <<a>>)
          IN  /\ state' = StateAfter(state, steps)
              /\ trail' = trail \o steps
    /\ UNCHANGED <<status, exitCode, message, handled, gitLog, depRange, bumped>>
    /\ Unchanged_config

\* the manifests the runs start from: every declaration of the repository's
\* other packages; for the unit's own package and for the package outside the
\* repository, no declaration or a pre-release one
ManifestRanges ==
    {r \in [DepNames -> Ranges] : r["own"] # "rel" /\ r["ext"] # "rel"}

FlagSets ==
    [skipChecks : BOOLEAN, policyCheck : BOOLEAN, branchCheck : BOOLEAN, commit : BOOLEAN,
     updateCheck : BOOLEAN, releaseGroup : {"client", "undefined"}]

DefaultFlags ==
    [skipChecks |-> FALSE, policyCheck |-> TRUE, branchCheck |-> TRUE, commit |-> TRUE,
     updateCheck |-> TRUE, releaseGroup |-> "client"]

Init ==
    /\ mode \in {"loop", "walk"}
    /\ cmd \in Commands
    /\ state = "Init"
    /\ IF mode = "loop"
       THEN /\ flags \in FlagSets
            /\ (cmd # "release" => flags.releaseGroup = "client")
            /\ depRange \in ManifestRanges
            /\ status = "constructed"
       ELSE /\ flags = DefaultFlags
            /\ depRange = [n \in DepNames |-> "none"]
            /\ status = "walk"
    /\ shouldSkipChecks = FALSE
    /\ shouldCheckPolicy = TRUE
    /\ shouldCheckBranch = TRUE
    /\ shouldCommit = TRUE
    /\ shouldCheckBranchUpdate = TRUE
    /\ exitCode = -1
    /\ message = <<>>
    /\ handled = <<>>
    /\ trail = <<>>
    /\ gitLog = <<>>
    /\ bumped = FALSE
    /\ version = [major |-> 0, minor |-> 0, patch |-> 0]
    /\ calls = <<>>
    /\ tags = [remote |-> {}, local |-> {}]

Next ==
    \/ CommandInit
    \/ StateLoopHandled
    \/ StateLoopEnds
    \/ StateLoopUnhandled
    \/ StateLoopThrows
    \/ Post

Spec == Init /\ [][Next]_vars

\* the loop is a do-while(true): a running command always takes its next iteration
StateLoop ==
    CommandInit \/ StateLoopHandled \/ StateLoopEnds \/ StateLoopUnhandled \/ StateLoopThrows

FairSpec == Spec /\ WF_vars(StateLoop)

(***************************************************************************)
(* The handlers one at a time                                              *)
(*                                                                         *)
(* The release command after init(), its machine driven along the edges of *)
(* its graph to any state, then one iteration of the loop body:            *)
(* handleState(machine.state()).  Every state of the graph is taken, also  *)
(* the ones the command's own runs do not get to.                          *)
(***************************************************************************)
\* machine.action(a) for an action the current state has an edge for
Drive ==
    /\ mode = "handle"
    /\ status = "running"
    /\ Len(trail) < MaxPosts
    /\ \E a \in KnownActions :
          LET steps == PostAll(machine(cmd), state, <<a>>)
          IN  /\ StateAfter(state, steps) # state
              /\ state' = StateAfter(state, steps)
              /\ trail' = trail \o steps
    /\ UNCHANGED <<status, exitCode, message, handled, gitLog, depRange, bumped>>
    /\ Unchanged_config

\* const handled = await this.handleState(state), once
HandleState ==
    /\ mode = "handle"
    /\ status = "running"
    /\ \E ans \in Answers(state), reg \in Registries(state) :
          LET out == handleState(cmd, state, ans, reg)
              ended == CASE out.end = "return" ->
                              [status |-> "handled", exitCode |-> exitCode, message |-> message]
                         [] out.end = "unhandled" -> UnhandledState(state)
                         [] OTHER ->
                              [status |-> Thrown(out.end).status,
                               exitCode |-> Thrown(out.end).exitCode, message |-> message]
          IN  /\ Apply(ans, out)
              /\ status' = ended.status
              /\ exitCode' = ended.exitCode
              /\ message' = ended.message
    /\ Unchanged_config

HandlerInit ==
    /\ mode = "handle"
    /\ cmd = "release"
    /\ state = "Init"
    /\ flags \in {f \in FlagSets : /\ f.policyCheck /\ f.branchCheck /\ f.updateCheck
                                   /\ isReleaseGroup(f.releaseGroup)}
    /\ depRange \in ManifestRanges
    /\ status = "running"
    /\ shouldSkipChecks = flags.skipChecks
    /\ shouldCheckPolicy = Gated(flags.policyCheck, flags.skipChecks)
    /\ shouldCheckBranch = Gated(flags.branchCheck, flags.skipChecks)
    /\ shouldCommit = Gated(flags.commit, flags.skipChecks)
    /\ shouldCheckBranchUpdate = Gated(flags.updateCheck, flags.skipChecks)
    /\ exitCode = -1
    /\ message = <<>>
    /\ handled = <<>>
    /\ trail = <<>>
    /\ gitLog = <<>>
    /\ bumped = FALSE
    /\ version = [major |-> 0, minor |-> 0, patch |-> 0]
    /\ calls = <<>>
    /\ tags = [remote |-> {}, local |-> {}]

HandlerNext ==
    \/ Drive
    \/ HandleState

HandlerSpec == HandlerInit /\ [][HandlerNext]_vars

(***************************************************************************)
(* Version arithmetic of the virtual patch scheme                          *)
(*                                                                         *)
(* The versions are release versions major.minor.patch.  A parsed version  *)
(* (semver.SemVer) is a record; the text of a version is the sequence of   *)
(* its three numbers.                                                      *)
(***************************************************************************)
\* largest major, largest minor of the versions the arithmetic starts from; their
\* patch is block * 1000 + rem with block up to MaxBlock and rem up to MaxRem or 999
MaxMajor == 2

MaxMinor == 2

MaxBlock == 2

MaxRem == 2

\* number of calls made one after the other
MaxCalls == 2

SemVer(major, minor, patch) == [major |-> major, minor |-> minor, patch |-> patch]

\* `${major}.${minor}.${patch}`
format(major, minor, patch) == <<major, minor, patch>>

\* semver.parse(text): the version in a one-element sequence, empty for null
parse(text) ==
    IF Len(text) = 3 /\ \A i \in 1..3 : text[i] \in Nat
    THEN <<SemVer(text[1], text[2], text[3])>>
    ELSE <<>>

\* what a call gives: a value, or an error thrown
Value(v) == [ok |-> TRUE, value |-> <<v>>, error |-> ""]

Throws(msg) == [ok |-> FALSE, value |-> <<>>, error |-> msg]

\* a classification that does not look at the major component
isVirtualPatch_anyMajor(v) == v.patch >= 1000

\* a classification that leaves out the first version of a block
isVirtualPatch_above(v) == v.major = 0 /\ v.patch > 1000

isVirtualPatch(v) == v.major = 0 /\ v.patch >= 1000

VersionBumpTypes == {"major", "minor", "patch", "current"}

\* a bump whose minor step does not round down to the start of the block
bumpVirtualPatchVersion_noRounding(versionBump, v) ==
    IF v.major # 0
    THEN Throws("Can only use virtual patches with major version 0")
    ELSE CASE versionBump = "major" -> Value([v EXCEPT !.minor = @ + 1, !.patch = 1000])
           [] versionBump = "minor" -> Value([v EXCEPT !.patch = @ + 1000])
           [] versionBump = "patch" -> Value([v EXCEPT !.patch = @ + 1])
           [] OTHER -> Throws("Unexpected version bump type")

\* a bump that does not look at the major component
bumpVirtualPatchVersion_anyMajor(versionBump, v) ==
    CASE versionBump = "major" -> Value([v EXCEPT !.minor = @ + 1, !.patch = 1000])
      [] versionBump = "minor" ->
             LET patch == v.patch + 1000
             IN  Value([v EXCEPT !.patch = patch - (patch % 1000)])
      [] versionBump = "patch" -> Value([v EXCEPT !.patch = @ + 1])
      [] OTHER -> Throws("Unexpected version bump type")

\* a bump whose major step starts the new series at patch 0
bumpVirtualPatchVersion_patchZero(versionBump, v) ==
    IF v.major # 0
    THEN Throws("Can only use virtual patches with major version 0")
    ELSE CASE versionBump = "major" -> Value([v EXCEPT !.minor = @ + 1, !.patch = 0])
           [] versionBump = "minor" ->
                  LET patch == v.patch + 1000
                  IN  Value([v EXCEPT !.patch = patch - (patch % 1000)])
           [] versionBump = "patch" -> Value([v EXCEPT !.patch = @ + 1])
           [] OTHER -> Throws("Unexpected version bump type")

bumpVirtualPatchVersion(versionBump, v) ==
    IF v.major # 0
    THEN Throws("Can only use virtual patches with major version 0")
    ELSE CASE versionBump = "major" -> Value([v EXCEPT !.minor = @ + 1, !.patch = 1000])
           [] versionBump = "minor" ->
                  LET patch == v.patch + 1000
                  IN  Value([v EXCEPT !.patch = patch - (patch % 1000)])
           [] versionBump = "patch" -> Value([v EXCEPT !.patch = @ + 1])
           [] OTHER -> Throws("Unexpected version bump type")

\* a conversion that keeps the whole patch number
fromVirtualPatchScheme_wholePatch(v) ==
    IF ~isVirtualPatch(v)
    THEN Throws("Version is not using the virtualPatch scheme")
    ELSE Value(SemVer(v.minor, (v.patch - (v.patch % 1000)) \div 1000, v.patch))

\* a conversion that does not classify its input first
fromVirtualPatchScheme_unchecked(v) ==
    Value(SemVer(v.minor, (v.patch - (v.patch % 1000)) \div 1000, v.patch % 1000))

fromVirtualPatchScheme(v) ==
    IF ~isVirtualPatch(v)
    THEN Throws("Version is not using the virtualPatch scheme")
    ELSE LET major == v.minor
             minor == (v.patch - (v.patch % 1000)) \div 1000
             patch == v.patch % 1000
             newSemVer == parse(format(major, minor, patch))
         IN  IF newSemVer = <<>>
             THEN Throws("Couldn't convert to a standard semver")
             ELSE Value(newSemVer[1])

\* a conversion that starts every block at its first version
toVirtualPatchScheme_blockStart(v) ==
    IF isVirtualPatch(v)
    THEN Value(v)
    ELSE Value(SemVer(0, v.major, (IF v.minor = 0 THEN 1 ELSE v.minor) * 1000))

\* a conversion without the rule for minor 0
toVirtualPatchScheme_minorAsBase(v) ==
    IF isVirtualPatch(v)
    THEN Value(v)
    ELSE Value(SemVer(0, v.major, v.minor * 1000 + (v.patch % 1000)))

\* a conversion that puts the minor component where the major one belongs
toVirtualPatchScheme_swapped(v) ==
    IF isVirtualPatch(v)
    THEN Value(v)
    ELSE Value(SemVer(0, v.minor, (IF v.major = 0 THEN 1 ELSE v.major) * 1000 + (v.patch % 1000)))

toVirtualPatchScheme(v) ==
    IF isVirtualPatch(v)
    THEN Value(v)
    ELSE LET major == 0
             minor == v.major
             patchBase == IF v.minor = 0 THEN 1 ELSE v.minor
             patch == patchBase * 1000 + (v.patch % 1000)
             newSemVer == parse(format(major, minor, patch))
         IN  IF newSemVer = <<>>
             THEN Throws("Couldn't convert to a standard semver")
             ELSE Value(newSemVer[1])

\* the versions the arithmetic starts from
Patches == {b * 1000 + r : b \in 0..MaxBlock, r \in (0..MaxRem) \cup {999}}

Versions ==
    {SemVer(major, minor, patch) : major \in 0..MaxMajor, minor \in 0..MaxMinor, patch \in Patches}

\* the version the next call is made on: what the last call returned, when it
\* returned a version
Current ==
    IF calls = <<>> THEN version ELSE calls[Len(calls)].next

\* the engine takes no part in the arithmetic
Unchanged_engine ==
    UNCHANGED <<mode, cmd, state, flags, shouldSkipChecks, shouldCheckPolicy,
                shouldCheckBranch, shouldCommit, shouldCheckBranchUpdate, depRange, status,
                exitCode, message, handled, trail, gitLog, bumped, version, tags>>

Called(op, versionBump, arg, result, next) ==
    Append(calls, [op |-> op, versionBump |-> versionBump, arg |-> arg, result |-> result,
                   next |-> next])

NextOf(result) == IF result.ok THEN result.value[1] ELSE Current

CallIsVirtualPatch ==
    /\ mode = "calc"
    /\ Len(calls) < MaxCalls
    /\ calls' = Called("isVirtualPatch", "", Current, Value(isVirtualPatch(Current)), Current)
    /\ Unchanged_engine

CallBumpVirtualPatchVersion ==
    /\ mode = "calc"
    /\ Len(calls) < MaxCalls
    /\ \E versionBump \in VersionBumpTypes :
          LET result == bumpVirtualPatchVersion(versionBump, Current)
          IN  calls' = Called("bumpVirtualPatchVersion", versionBump, Current, result,
                              NextOf(result))
    /\ Unchanged_engine

CallFromVirtualPatchScheme ==
    /\ mode = "calc"
    /\ Len(calls) < MaxCalls
    /\ LET result == fromVirtualPatchScheme(Current)
       IN  calls' = Called("fromVirtualPatchScheme", "", Current, result, NextOf(result))
    /\ Unchanged_engine

CallToVirtualPatchScheme ==
    /\ mode = "calc"
    /\ Len(calls) < MaxCalls
    /\ LET result == toVirtualPatchScheme(Current)
       IN  calls' = Called("toVirtualPatchScheme", "", Current, result, NextOf(result))
    /\ Unchanged_engine

VersionInit ==
    /\ mode = "calc"
    /\ version \in Versions
    /\ calls = <<>>
    /\ tags = [remote |-> {}, local |-> {}]
    /\ cmd = "release"
    /\ state = "Init"
    /\ flags = DefaultFlags
    /\ depRange = [n \in DepNames |-> "none"]
    /\ status = "calc"
    /\ shouldSkipChecks = FALSE
    /\ shouldCheckPolicy = TRUE
    /\ shouldCheckBranch = TRUE
    /\ shouldCommit = TRUE
    /\ shouldCheckBranchUpdate = TRUE
    /\ exitCode = -1
    /\ message = <<>>
    /\ handled = <<>>
    /\ trail = <<>>
    /\ gitLog = <<>>
    /\ bumped = FALSE

VersionNext ==
    \/ CallIsVirtualPatch
    \/ CallBumpVirtualPatchVersion
    \/ CallFromVirtualPatchScheme
    \/ CallToVirtualPatchScheme

VersionSpec == VersionInit /\ [][VersionNext]_vars

\* toVirtualPatchScheme called on a second version, to compare what it gives
\* with what it gave for the first
CallToVirtualPatchSchemeOnOther ==
    /\ mode = "calc"
    /\ Len(calls) = 1
    /\ Len(calls) < MaxCalls
    /\ calls[1].op = "toVirtualPatchScheme"
    /\ \E v \in Versions :
          LET result == toVirtualPatchScheme(v)
          IN  calls' = Called("toVirtualPatchScheme", "", v, result, NextOf(result))
    /\ Unchanged_engine

OrderNext ==
    \/ CallToVirtualPatchScheme
    \/ CallToVirtualPatchSchemeOnOther

\* toVirtualPatchScheme on pairs of versions
OrderSpec == VersionInit /\ [][OrderNext]_vars

(***************************************************************************)
(* Tags and branch names                                                   *)
(* A version string is a record of major, minor, patch and pre, the        *)
(* pre-release part as the sequence of its dot-separated identifiers.  A   *)
(* text built by a template string is the sequence of its parts; a package *)
(* name is the sequence of its "/"-separated parts, each the sequence of   *)
(* its pieces, so that a leading "fluid-" is a piece of its own.           *)
(***************************************************************************)
\* number of tags the remote holds at most
MaxTags == 2

VersionString(v, pre) ==
    [major |-> v.major, minor |-> v.minor, patch |-> v.patch, pre |-> pre]

\* `${version}`
text(v) == format(v.major, v.minor, v.patch) \o v.pre

\* a version of the internal scheme: <leading>-internal.<embedded>
InternalVersion(leading, embedded) ==
    VersionString(leading, <<"internal", embedded.major, embedded.minor, embedded.patch>>)

\* the version has the shape of the internal scheme
isInternalVersionScheme(v) == Len(v.pre) = 4 /\ v.pre[1] = "internal"

\* detectVersionScheme(version)
detectVersionScheme(v) ==
    IF isVirtualPatch(v) THEN "virtualPatch"
    ELSE IF isInternalVersionScheme(v) THEN "internal"
    ELSE "semver"

\* fromInternalScheme(version): the tuple of the leading version and the
\* version embedded in the pre-release part
fromInternalScheme(v) ==
    <<VersionString(v, <<>>), VersionString(SemVer(v.pre[2], v.pre[3], v.pre[4]), <<>>)>>

\* a branch named by major.minor whatever the scheme
releaseBranchName_majorMinor(releaseGroup, v) ==
    LET scheme == detectVersionScheme(v)
        branchVersion == IF scheme = "internal" THEN fromInternalScheme(v)[2] ELSE v
        branchName == IF releaseGroup = "client" THEN "v2int" ELSE releaseGroup
    IN  <<"release/", branchName, "/", <<branchVersion.major, branchVersion.minor>>>>

\* releaseBranchName(releaseGroup, version); the source's index 1 of the tuple
\* is its second element
releaseBranchName(releaseGroup, v) ==
    LET scheme == detectVersionScheme(v)
        branchVersion == IF scheme = "internal" THEN fromInternalScheme(v)[2] ELSE v
        releaseBranchVersion ==
            IF scheme = "virtualPatch" THEN text(branchVersion)
            ELSE <<branchVersion.major, branchVersion.minor>>
        branchName == IF releaseGroup = "client" THEN "v2int" ELSE releaseGroup
    IN  <<"release/", branchName, "/", releaseBranchVersion>>

\* String.prototype.toLowerCase on the names that occur
toLowerCase(name) ==
    CASE name = "Client" -> "client"
      [] name = "BuildTools" -> "buildtools"
      [] OTHER -> name

\* getPackageShortName(pkgName)
getPackageShortName(pkgName) ==
    LET name == pkgName[Len(pkgName)]
    IN  IF Head(name) = "fluid-" THEN Tail(name) ELSE name

\* what isReleased is given: a MonoRepo, a Package, or a release group's name
MonoRepo(kind) == [type |-> "MonoRepo", kind |-> kind, name |-> <<>>]

Package(name) == [type |-> "Package", kind |-> "", name |-> name]

Named(releaseGroup) == [type |-> "string", kind |-> releaseGroup, name |-> <<>>]

\* `${name}_v${version}`
TagName(name, v) == [name |-> name, sep |-> "_v", version |-> text(v)]

\* gitRepo.fetchTags(): the clone learns the remote's tags
fetchTags(t) == [t EXCEPT !.local = t.local \cup t.remote]

\* gitRepo.getTags(name): the clone's tags of that name, one to a line
getTags(t, tagName) ==
    [lines |-> IF tagName \in t.local THEN <<tagName>> ELSE <<>>, newline |-> TRUE]

\* String.prototype.trim on the output of getTags
trim(raw) == raw.lines

\* a function that asks the clone before it fetches
isReleased_queriesFirst(t, releaseGroup, v) ==
    LET unit == IF releaseGroup.type = "string" /\ isReleaseGroup(releaseGroup.kind)
                THEN MonoRepo(releaseGroup.kind)
                ELSE releaseGroup
        tagName == IF unit.type = "MonoRepo"
                   THEN TagName(<<toLowerCase(unit.kind)>>, v)
                   ELSE IF unit.type # "string"
                        THEN TagName(getPackageShortName(unit.name), v)
                        ELSE TagName(<<>>, v)
        rawTag == getTags(t, tagName)
    IN  [result |-> (trim(rawTag) = <<tagName>>),
         tags   |-> fetchTags(t),
         git    |-> <<"getTags", "fetchTags">>]

\* isReleased(context, releaseGroup), the unit being at version v
isReleased(t, releaseGroup, v) ==
    LET fetched == fetchTags(t)
        unit == IF releaseGroup.type = "string" /\ isReleaseGroup(releaseGroup.kind)
                THEN MonoRepo(releaseGroup.kind)
                ELSE releaseGroup
        tagName == IF unit.type = "MonoRepo"
                   THEN TagName(<<toLowerCase(unit.kind)>>, v)
                   ELSE IF unit.type # "string"
                        THEN TagName(getPackageShortName(unit.name), v)
                        ELSE TagName(<<>>, v)
        rawTag == getTags(fetched, tagName)
    IN  [result |-> (trim(rawTag) = <<tagName>>),
         tags   |-> fetched,
         git    |-> <<"fetchTags", "getTags">>]

ReleaseGroups == {"client", "build-tools"}

PackageNames == {<<<<"@fluidframework">>, <<"fluid-", "runner">>>>}

\* the units isReleased is called on
Units ==
    {MonoRepo("client"), Named("client")} \cup {Package(n) : n \in PackageNames}

\* the versions the units are at: semver and virtual patch versions, and
\* versions of the internal scheme
UnitVersions ==
    {VersionString(SemVer(major, MaxMinor, patch), <<>>) :
        major \in 0..1, patch \in {MaxRem, 1000 + MaxRem}}
    \cup {InternalVersion(SemVer(2, 0, 0), SemVer(1, MaxMinor, 0))}

\* the version after v's next patch release
NextPatch(v) ==
    IF isInternalVersionScheme(v)
    THEN InternalVersion(v, SemVer(v.pre[2], v.pre[3], v.pre[4] + 1))
    ELSE [v EXCEPT !.patch = v.patch + 1]

\* the names tags are made with
TagPrefixes == {<<"client">>, <<"Client">>, <<"runner">>, <<"fluid-", "runner">>}

\* the tags a remote can have: of the unit's version and of the one after it
TagsAt(v) == {TagName(n, w) : n \in TagPrefixes, w \in {v, NextPatch(v)}}

\* the naming functions take no part in the engine or the arithmetic
Unchanged_naming ==
    UNCHANGED <<mode, cmd, state, flags, shouldSkipChecks, shouldCheckPolicy,
                shouldCheckBranch, shouldCommit, shouldCheckBranchUpdate, depRange, status,
                exitCode, message, handled, trail, bumped, version>>

Named_call(op, unit, result) ==
    [op |-> op, unit |-> unit, version |-> version, remote |-> tags.remote,
     result |-> <<result>>]

CallIsReleased ==
    /\ mode = "names"
    /\ Len(calls) < MaxCalls
    /\ \E unit \in Units :
          LET r == isReleased(tags, unit, version)
          IN  /\ calls' = Append(calls, Named_call("isReleased", unit, r.result))
              /\ tags' = r.tags
              /\ gitLog' = gitLog \o r.git
    /\ Unchanged_naming

CallReleaseBranchName ==
    /\ mode = "names"
    /\ Len(calls) < MaxCalls
    /\ \E releaseGroup \in ReleaseGroups :
          calls' = Append(calls, Named_call("releaseBranchName", Named(releaseGroup),
                                            releaseBranchName(releaseGroup, version)))
    /\ UNCHANGED <<tags, gitLog>>
    /\ Unchanged_naming

\* the release pipeline (or anyone) pushes a tag to the remote
PushTag ==
    /\ mode = "names"
    /\ Cardinality(tags.remote) < MaxTags
    /\ \E t \in TagsAt(version) \ tags.remote :
          tags' = [tags EXCEPT !.remote = tags.remote \cup {t}]
    /\ UNCHANGED <<calls, gitLog>>
    /\ Unchanged_naming

\* a fresh clone of a remote that has no tags yet
NamingInit ==
    /\ mode = "names"
    /\ version \in UnitVersions
    /\ tags = [remote |-> {}, local |-> {}]
    /\ calls = <<>>
    /\ cmd = "release"
    /\ state = "Init"
    /\ flags = DefaultFlags
    /\ depRange = [n \in DepNames |-> "none"]
    /\ status = "names"
    /\ shouldSkipChecks = FALSE
    /\ shouldCheckPolicy = TRUE
    /\ shouldCheckBranch = TRUE
    /\ shouldCommit = TRUE
    /\ shouldCheckBranchUpdate = TRUE
    /\ exitCode = -1
    /\ message = <<>>
    /\ handled = <<>>
    /\ trail = <<>>
    /\ gitLog = <<>>
    /\ bumped = FALSE

NamingNext ==
    \/ CallIsReleased
    \/ CallReleaseBranchName
    \/ PushTag

NamingSpec == NamingInit /\ [][NamingNext]_vars

(***************************************************************************)
(* Properties                                                              *)
(***************************************************************************)
Last(q) == q[Len(q)]

Stopped == status \in {"exited", "error", "assert"}

\* the transitions an invocation made the machine take
Moves(h) == SelectSeq(h.steps, LAMBDA t : t.from # t.to)

AdvancedBy(h, a) == Len(Moves(h)) = 1 /\ Moves(h)[1].action = a

PromptStates ==
    {"PromptToPRBump", "PromptToPRDeps", "PromptToPRReleasedDepsBump", "PromptToCommitBump",
     "PromptToCommitDeps", "PromptToRelease", "PromptToReleaseDeps"}

\* C1: every handler invocation on a recognized, non-terminal state that
\* returns true has posted exactly one action.
C1_ExactlyOnePost ==
    \A i \in DOMAIN handled :
        (handled[i].end = "return" /\ ~state_is_terminal(machine(cmd), handled[i].state))
            => Len(handled[i].posts) = 1

\* C2: with skipChecks the release command handles Init, then
\* CheckShouldRunChecks, then CheckNoPrereleaseDependencies; it never handles
\* the five skipped checks, and it stops in a PromptTo* state.
C2_SkipChecksPath ==
    (mode = "loop" /\ cmd = "release" /\ shouldSkipChecks) =>
        /\ Len(handled) >= 1 => handled[1].state = "Init"
        /\ Len(handled) >= 2 => handled[2].state = "CheckShouldRunChecks"
        /\ Len(handled) >= 3 => handled[3].state = "CheckNoPrereleaseDependencies"
        /\ \A i \in DOMAIN handled :
              handled[i].state \notin {"CheckValidReleaseGroup", "CheckPolicy", "CheckBranchName",
                                       "CheckHasRemote", "CheckBranchUpToDate"}
        /\ Stopped => state \in PromptStates

\* does every post recorded in the trail from state s with action a lead to t
Leads(s, a, t) ==
    \A i \in DOMAIN trail :
        (trail[i].from = s /\ trail[i].action = a) => trail[i].to = t

AllSuccess(t) == \A i \in DOMAIN t : t[i].action = "success"

Min(a, b) == IF a < b THEN a ELSE b

\* C3: in the patch-release machine, 'success' posted at every step from Init
\* visits Init, CheckShouldRunChecks, CheckValidReleaseGroup, CheckPolicy,
\* CheckBranchName, CheckHasRemote, CheckBranchUpToDate,
\* CheckNoPrereleaseDependencies, CheckIfCurrentReleaseGroupIsReleased,
\* DoReleaseGroupBumpPatch, CheckShouldCommitBump, PromptToPRBump in that
\* order, and no post moves the machine out of PromptToPRBump.
C3_SuccessChain ==
    LET chain == <<"Init", "CheckShouldRunChecks", "CheckValidReleaseGroup", "CheckPolicy",
                   "CheckBranchName", "CheckHasRemote", "CheckBranchUpToDate",
                   "CheckNoPrereleaseDependencies", "CheckIfCurrentReleaseGroupIsReleased",
                   "DoReleaseGroupBumpPatch", "CheckShouldCommitBump", "PromptToPRBump">>
    IN  cmd = "release" =>
            /\ AllSuccess(trail) =>
                  \A i \in DOMAIN trail :
                      /\ trail[i].from = chain[Min(i, Len(chain))]
                      /\ trail[i].to = chain[Min(i + 1, Len(chain))]
            /\ \A a \in KnownActions : Leads("PromptToPRBump", a, "PromptToPRBump")

\* eleven successes have taken the driven machine to PromptToPRBump, and one more post was made there
C3_Witness ==
    /\ mode = "walk" /\ cmd = "release"
    /\ Len(trail) = 12 /\ AllSuccess(trail)
    /\ state = "PromptToPRBump"

\* C4: in the patch-release machine 'failure' from CheckValidReleaseGroup,
\* CheckPolicy, CheckBranchName, CheckHasRemote, CheckBranchUpToDate and
\* DoReleaseGroupBumpPatch leads to Failed, and no post moves the machine
\* out of Failed.
C4_FailureLeadsToFailed ==
    cmd = "release" =>
        /\ \A s \in {"CheckValidReleaseGroup", "CheckPolicy", "CheckBranchName",
                     "CheckHasRemote", "CheckBranchUpToDate", "DoReleaseGroupBumpPatch"} :
               Leads(s, "failure", "Failed")
        /\ \A a \in KnownActions : Leads("Failed", a, "Failed")

\* the bump has failed and a further action was posted in Failed
C4_Witness ==
    /\ cmd = "release" /\ state = "Failed"
    /\ \E i \in DOMAIN trail :
          /\ trail[i].from = "DoReleaseGroupBumpPatch" /\ trail[i].action = "failure"
          /\ i < Len(trail) /\ trail[i + 1].from = "Failed"

\* C5: in the patch-release machine CheckNoPrereleaseDependencies on
\* 'failure' enters DoBumpReleasedDependencies; from there 'success' steps go
\* through CheckNoMorePrereleaseDependencies and CheckShouldCommitDeps to
\* PromptToPRDeps; 'failure' goes to CheckNoPrereleaseDependencies2, which on
\* 'failure' goes to PromptToReleaseDeps and on 'success' through
\* CheckShouldCommitReleasedDepsBump to PromptToPRReleasedDepsBump.
C5_DependencySubflow ==
    cmd = "release" =>
        /\ Leads("CheckNoPrereleaseDependencies", "failure", "DoBumpReleasedDependencies")
        /\ Leads("DoBumpReleasedDependencies", "success", "CheckNoMorePrereleaseDependencies")
        /\ Leads("CheckNoMorePrereleaseDependencies", "success", "CheckShouldCommitDeps")
        /\ Leads("CheckShouldCommitDeps", "success", "PromptToPRDeps")
        /\ Leads("DoBumpReleasedDependencies", "failure", "CheckNoPrereleaseDependencies2")
        /\ Leads("CheckNoPrereleaseDependencies2", "failure", "PromptToReleaseDeps")
        /\ Leads("CheckNoPrereleaseDependencies2", "success", "CheckShouldCommitReleasedDepsBump")
        /\ Leads("CheckShouldCommitReleasedDepsBump", "success", "PromptToPRReleasedDepsBump")

\* the sub-flow was entered by 'failure' and followed to PromptToPRReleasedDepsBump
C5_Witness ==
    /\ cmd = "release" /\ state = "PromptToPRReleasedDepsBump"
    /\ \E i \in DOMAIN trail :
          /\ trail[i].from = "CheckNoPrereleaseDependencies" /\ trail[i].action = "failure"
          /\ i + 3 = Len(trail)
          /\ trail[i + 1].from = "DoBumpReleasedDependencies" /\ trail[i + 1].action = "failure"
          /\ trail[i + 2].from = "CheckNoPrereleaseDependencies2"
          /\ trail[i + 3].from = "CheckShouldCommitReleasedDepsBump"

HandledStates == {handled[i].state : i \in DOMAIN handled}

\* C6: in the patch-release machine CheckShouldCommitBump on 'failure' goes
\* to PromptToCommitBump, CheckShouldCommitDeps to PromptToCommitDeps and
\* CheckIfCurrentReleaseGroupIsReleased to PromptToRelease; a run of the
\* release command that handles CheckShouldCommitBump with shouldCommit false
\* is then in PromptToCommitBump and stops there, and a run whose release
\* group is not released is then in PromptToRelease, stops there and never
\* handles DoReleaseGroupBumpPatch.
C6_PromptOnFailure ==
    cmd = "release" =>
        /\ Leads("CheckShouldCommitBump", "failure", "PromptToCommitBump")
        /\ Leads("CheckShouldCommitDeps", "failure", "PromptToCommitDeps")
        /\ Leads("CheckIfCurrentReleaseGroupIsReleased", "failure", "PromptToRelease")
        /\ \A i \in DOMAIN handled :
              /\ (handled[i].state = "CheckShouldCommitBump" /\ ~shouldCommit) =>
                    /\ state = "PromptToCommitBump"
                    /\ Stopped => status = "exited"
                    /\ \A j \in (i + 1)..Len(handled) : handled[j].state = "PromptToCommitBump"
              /\ (/\ handled[i].state = "CheckIfCurrentReleaseGroupIsReleased"
                  /\ handled[i].end = "return"
                  /\ ~handled[i].ans) =>
                    /\ state = "PromptToRelease"
                    /\ Stopped => status = "exited"
                    /\ \A j \in (i + 1)..Len(handled) : handled[j].state = "PromptToRelease"
                    /\ "DoReleaseGroupBumpPatch" \notin HandledStates
                    /\ ~bumped

\* a run without commit has handled CheckShouldCommitBump and stopped in PromptToCommitBump
C6_Witness ==
    /\ mode = "loop" /\ cmd = "release" /\ ~shouldCommit
    /\ "CheckShouldCommitBump" \in HandledStates
    /\ state = "PromptToCommitBump" /\ status = "exited"

\* the states some handler layer of command c has a case for
Recognized(c) == LocalCases(c) \cup ChecksCases \cup {"Failed"}

\* C7: when the loop is in a state no handler layer recognizes it stops with
\* a fatal error whose message contains that state's name, and it handles
\* nothing after it.
C7_UnhandledIsFatal ==
    \A i \in DOMAIN handled :
        (handled[i].state \notin Recognized(cmd) \/ handled[i].end = "unhandled") =>
            /\ handled[i].state \notin Recognized(cmd)
            /\ handled[i].end = "unhandled"
            /\ handled[i].posts = <<>>
            /\ i = Len(handled)
            /\ status = "error"
            /\ state = handled[i].state
            /\ \E k \in DOMAIN message : message[k] = handled[i].state

\* the release-preparation command has come to DoReleaseGroupBumpMinor, which none of its layers handles
C7_Witness ==
    /\ mode = "loop" /\ cmd = "prep2"
    /\ state = "DoReleaseGroupBumpMinor"
    /\ handled # <<>> /\ Last(handled).end = "unhandled"
    /\ status = "error"

\* C8: no state is recognized by both the command's own handler layer and the
\* base layer, and an invocation on a state both would recognize ends as an
\* assertion failure.
C8_OneLayerPerState ==
    \A i \in DOMAIN handled :
        handled[i].state \in LocalCases(cmd) \cap (ChecksCases \cup {"Failed"}) =>
            (handled[i].end = "assert" /\ status = "assert")

GateFlag(st) ==
    CASE st = "CheckPolicy" -> shouldCheckPolicy
      [] st = "CheckBranchName" -> shouldCheckBranch
      [] st = "CheckBranchUpToDate" -> shouldCheckBranchUpdate

\* C10: for CheckPolicy, CheckBranchName and CheckBranchUpToDate: with the
\* gating flag false the predicate is not evaluated and the machine advances
\* by 'success'; with the flag true it advances by 'success' when the
\* predicate holds and by 'failure' when it does not.
C10_GatedChecks ==
    \A i \in DOMAIN handled :
        LET h == handled[i]
        IN  h.state \in {"CheckPolicy", "CheckBranchName", "CheckBranchUpToDate"} =>
                IF ~GateFlag(h.state)
                THEN ~h.evaluated /\ AdvancedBy(h, "success")
                ELSE IF h.ans THEN AdvancedBy(h, "success") ELSE AdvancedBy(h, "failure")

\* does machine m define a transition from state s on action a
Defined(m, s, a) == \E e \in m : e[1] = s /\ e[2] = a

\* C11: an action posted from a state in which the machine defines no
\* transition for it is surfaced as an error: the invocation that posted it
\* does not return normally and the loop handles nothing after it.
C11_InvalidPostIsError ==
    \A i \in DOMAIN handled :
        \A k \in DOMAIN handled[i].steps :
            ~Defined(machine(cmd), handled[i].steps[k].from, handled[i].steps[k].action) =>
                /\ handled[i].end # "return"
                /\ i = Len(handled)
                /\ status \in {"error", "assert"}

\* C12: a run that ends in a terminal state other than Failed has exit code
\* 0; a run that ends in Failed or with an unhandled state has a non-zero
\* exit code.
C12_ExitCodes ==
    (mode = "loop" /\ Stopped) =>
        /\ (status = "exited" /\ state \in PromptStates) => exitCode = 0
        /\ (state = "Failed" \/ status = "error") => exitCode # 0

\* C13: once the command is initialized, shouldCheckPolicy,
\* shouldCheckBranch, shouldCommit and shouldCheckBranchUpdate each equal
\* their flag and-ed with the negation of skipChecks, for the whole run; so
\* with shouldSkipChecks all four are false.
C13_FlagsGated ==
    (mode = "loop" /\ status # "constructed") =>
        /\ shouldSkipChecks = flags.skipChecks
        /\ shouldCheckPolicy = (flags.policyCheck /\ ~flags.skipChecks)
        /\ shouldCheckBranch = (flags.branchCheck /\ ~flags.skipChecks)
        /\ shouldCommit = (flags.commit /\ ~flags.skipChecks)
        /\ shouldCheckBranchUpdate = (flags.updateCheck /\ ~flags.skipChecks)
        /\ shouldSkipChecks =>
              ~(shouldCheckPolicy \/ shouldCheckBranch \/ shouldCommit \/ shouldCheckBranchUpdate)

\* a run with skipChecks and every check flag given has handled states and stopped
C13_Witness ==
    /\ mode = "loop" /\ Stopped /\ Len(handled) >= 3
    /\ flags.skipChecks /\ flags.policyCheck /\ flags.branchCheck /\ flags.commit
    /\ flags.updateCheck
    /\ shouldSkipChecks /\ ~shouldCommit

\* the invocations that asked for the pre-release dependency report
Reported == {i \in DOMAIN handled : handled[i].report # <<>>}

ReportOf(i) == handled[i].report[1]

\* C14: getPreReleaseDependencies returns isEmpty = true exactly when the
\* returned releaseGroups and the returned packages are both empty.
C14_IsEmptyIffBothEmpty ==
    \A i \in Reported :
        ReportOf(i).isEmpty <=> (ReportOf(i).releaseGroups = {} /\ ReportOf(i).packages = {})

\* C15: getPreReleaseDependencies flags a dependency exactly when it names a
\* package elsewhere in the repository and the minimum version of its range
\* has a pre-release tag: the standalone package is reported under packages,
\* the package of a release group under releaseGroups by its group, and
\* nothing else is reported (not the unit's own packages, not packages
\* outside the repository, not in-repo dependencies on a released version).
C15_FlaggedDependencies ==
    \A i \in Reported :
        LET g == handled[i].graph
            r == ReportOf(i)
        IN  /\ r.packages = (IF g["tools"] = "pre" THEN {"tools"} ELSE {})
            /\ r.releaseGroups = (IF g["srv1"] = "pre" THEN {"server"} ELSE {})

\* a report for a unit that depends on a pre-release of the standalone package, on a
\* released version of the release group's package, and on pre-releases of one of
\* its own packages and of a package outside the repository
C15_Witness ==
    \E i \in Reported :
        /\ handled[i].graph = [own |-> "pre", tools |-> "pre", srv1 |-> "rel", ext |-> "pre"]
        /\ ReportOf(i).packages = {"tools"}
        /\ ReportOf(i).releaseGroups = {}

\* the manifests as the invocation i left them
GraphAfter(i) == IF i < Len(handled) THEN handled[i + 1].graph ELSE depRange

Chained(first, op) ==
    {i \in DOMAIN calls : /\ i > 1
                          /\ calls[i - 1].op = first /\ calls[i - 1].result.ok
                          /\ calls[i].op = op
                          /\ calls[i].arg = calls[i - 1].result.value[1]}

\* C17, as stated: for every version v = major.minor.patch that is not
\* classified as virtual-patch, fromVirtualPatchScheme(toVirtualPatchScheme(v))
\* equals v.
C17_RoundTrip ==
    \A i \in Chained("toVirtualPatchScheme", "fromVirtualPatchScheme") :
        LET v == calls[i - 1].arg
        IN  ~(v.major = 0 /\ v.patch >= 1000) =>
                (calls[i].result.ok /\ calls[i].result.value = <<v>>)

\* C17, amended: for every version v = major.minor.patch with minor >= 1 and
\* patch < 1000, fromVirtualPatchScheme(toVirtualPatchScheme(v)) equals v;
\* for a version v with minor = 0 and patch < 1000 it is major.1.patch.
C17_RoundTripFromFirstMinor ==
    \A i \in Chained("toVirtualPatchScheme", "fromVirtualPatchScheme") :
        LET v == calls[i - 1].arg
        IN  v.patch < 1000 =>
                /\ calls[i].result.ok
                /\ v.minor >= 1 => calls[i].result.value = <<v>>
                /\ v.minor = 0 =>
                      calls[i].result.value = <<[major |-> v.major, minor |-> 1, patch |-> v.patch]>>

\* 1.2.2 was converted to the scheme and back
C17_Witness ==
    /\ Len(calls) = 2
    /\ calls[1].op = "toVirtualPatchScheme"
    /\ calls[1].arg = [major |-> 1, minor |-> 2, patch |-> 2]
    /\ calls[2].op = "fromVirtualPatchScheme"
    /\ calls[2].result.ok

\* C18: for every version v classified as virtual-patch (major = 0,
\* patch >= 1000), toVirtualPatchScheme(fromVirtualPatchScheme(v)) equals v.
C18_RoundTripVirtual ==
    \A i \in DOMAIN calls :
        (i > 1 /\ calls[i - 1].op = "fromVirtualPatchScheme" /\ calls[i].op = "toVirtualPatchScheme") =>
            LET v == calls[i - 1].arg
            IN  (v.major = 0 /\ v.patch >= 1000) =>
                    /\ calls[i - 1].result.ok
                    /\ calls[i].arg = calls[i - 1].result.value[1]
                    /\ calls[i].result.ok
                    /\ calls[i].result.value = <<v>>

\* 0.2.1002 was converted from the scheme and back to it
C18_Witness ==
    /\ Len(calls) = 2
    /\ calls[1].op = "fromVirtualPatchScheme"
    /\ calls[1].arg = [major |-> 0, minor |-> 2, patch |-> 1002]
    /\ calls[2].op = "toVirtualPatchScheme"
    /\ calls[2].result.ok

\* C19: toVirtualPatchScheme(v) = v for every version v that is classified
\* as virtual-patch (major = 0, patch >= 1000), so applying it again changes
\* nothing.
C19_ToIsIdentityOnVirtual ==
    \A i \in DOMAIN calls :
        (calls[i].op = "toVirtualPatchScheme"
            /\ calls[i].arg.major = 0 /\ calls[i].arg.patch >= 1000) =>
                (calls[i].result.ok /\ calls[i].result.value = <<calls[i].arg>>)

\* toVirtualPatchScheme was applied to 0.1.1000, and to what it gave
C19_Witness ==
    /\ Len(calls) = 2
    /\ calls[1].op = "toVirtualPatchScheme"
    /\ calls[1].arg = [major |-> 0, minor |-> 1, patch |-> 1000]
    /\ calls[2].op = "toVirtualPatchScheme"
    /\ calls[2].arg = calls[1].result.value[1]

\* C20: isVirtualPatch(v) is true exactly when v's major is 0 and its patch
\* is at least 1000.
C20_IsVirtualPatch ==
    \A i \in DOMAIN calls :
        calls[i].op = "isVirtualPatch" =>
            /\ calls[i].result.ok
            /\ calls[i].result.value[1] = (calls[i].arg.major = 0 /\ calls[i].arg.patch >= 1000)

\* 0.1.1000 was classified, and after a conversion 1.1.0 was
C20_Witness ==
    /\ Len(calls) = 2
    /\ calls[1].op = "fromVirtualPatchScheme"
    /\ calls[1].arg = [major |-> 0, minor |-> 1, patch |-> 1000]
    /\ calls[2].op = "isVirtualPatch"
    /\ calls[2].result.value = <<FALSE>>

\* the calls of bumpVirtualPatchVersion with bump type t
Bumps(t) ==
    {i \in DOMAIN calls : calls[i].op = "bumpVirtualPatchVersion" /\ calls[i].versionBump = t}

\* C21: for a version 0.m.p bumpVirtualPatchVersion returns 0.(m+1).1000 for
\* 'major', 0.m.(p + 1000 - ((p + 1000) mod 1000)) for 'minor' and 0.m.(p+1)
\* for 'patch'.
C21_BumpArithmetic ==
    /\ \A i \in Bumps("major") :
          calls[i].arg.major = 0 =>
              calls[i].result.value =
                  <<[major |-> 0, minor |-> calls[i].arg.minor + 1, patch |-> 1000]>>
    /\ \A i \in Bumps("minor") :
          calls[i].arg.major = 0 =>
              calls[i].result.value =
                  <<[major |-> 0, minor |-> calls[i].arg.minor,
                     patch |-> calls[i].arg.patch + 1000 - ((calls[i].arg.patch + 1000) % 1000)]>>
    /\ \A i \in Bumps("patch") :
          calls[i].arg.major = 0 =>
              calls[i].result.value =
                  <<[major |-> 0, minor |-> calls[i].arg.minor, patch |-> calls[i].arg.patch + 1]>>

\* 0.2.1000 was bumped by 'patch' and the result by 'minor', giving 0.2.2000
C21_Witness ==
    /\ Len(calls) = 2
    /\ 1 \in Bumps("patch") /\ 2 \in Bumps("minor")
    /\ calls[1].arg = [major |-> 0, minor |-> 2, patch |-> 1000]
    /\ calls[2].arg = [major |-> 0, minor |-> 2, patch |-> 1001]
    /\ calls[2].result.value = <<[major |-> 0, minor |-> 2, patch |-> 2000]>>

\* C22: for a version M.m.p not classified as virtual-patch,
\* toVirtualPatchScheme returns 0.M.(base * 1000 + (p mod 1000)) with base = m
\* when m is not 0 and base = 1 when m is 0.
C22_ToVirtualPatchArithmetic ==
    \A i \in DOMAIN calls :
        (calls[i].op = "toVirtualPatchScheme"
            /\ ~(calls[i].arg.major = 0 /\ calls[i].arg.patch >= 1000)) =>
                LET v == calls[i].arg
                    base == IF v.minor # 0 THEN v.minor ELSE 1
                IN  calls[i].result.value =
                        <<[major |-> 0, minor |-> v.major, patch |-> base * 1000 + (v.patch % 1000)]>>

\* 1.0.2 was converted to 0.1.1002
C22_Witness ==
    \E i \in DOMAIN calls :
        /\ calls[i].op = "toVirtualPatchScheme"
        /\ calls[i].arg = [major |-> 1, minor |-> 0, patch |-> 2]
        /\ calls[i].result.value = <<[major |-> 0, minor |-> 1, patch |-> 1002]>>

\* C23: bumpVirtualPatchVersion fails with an error and returns no version,
\* for every bump type, when the major component of its input is not 0.
C23_BumpNeedsMajorZero ==
    \A t \in {"major", "minor", "patch"} :
        \A i \in Bumps(t) :
            calls[i].arg.major # 0 =>
                /\ ~calls[i].result.ok
                /\ calls[i].result.value = <<>>
                /\ calls[i].result.error # ""

\* a 'minor' bump of 1.1.1000 was asked for and refused
C23_Witness ==
    \E i \in Bumps("minor") :
        /\ calls[i].arg = [major |-> 1, minor |-> 1, patch |-> 1000]
        /\ ~calls[i].result.ok

\* C24: fromVirtualPatchScheme fails with an error for every input that is
\* not classified as virtual-patch, and for a virtual-patch input 0.m.p it
\* returns m.(p div 1000).(p mod 1000).
C24_FromVirtualPatch ==
    \A i \in DOMAIN calls :
        calls[i].op = "fromVirtualPatchScheme" =>
            LET v == calls[i].arg
            IN  IF v.major = 0 /\ v.patch >= 1000
                THEN calls[i].result.value =
                         <<[major |-> v.minor, minor |-> v.patch \div 1000, patch |-> v.patch % 1000]>>
                ELSE ~calls[i].result.ok /\ calls[i].result.value = <<>>

\* 0.2.2999 was converted to 2.2.999, and converting that again was refused
C24_Witness ==
    /\ Len(calls) = 2
    /\ calls[1].op = "fromVirtualPatchScheme"
    /\ calls[1].arg = [major |-> 0, minor |-> 2, patch |-> 2999]
    /\ calls[2].op = "fromVirtualPatchScheme"
    /\ calls[2].arg = [major |-> 2, minor |-> 2, patch |-> 999]
    /\ ~calls[2].result.ok

\* C25: for the machine of the running command, the states of the graph are
\* exactly the declared known states and the actions used in the graph are
\* exactly the declared known actions, and the machine is in a known state.
C25_KnownStates ==
    /\ states(machine(cmd)) = knownStates(cmd)
    /\ list_actions(machine(cmd)) = KnownActions
    /\ state \in knownStates(cmd)

CheckGates ==
    {"CheckShouldRunChecks", "CheckValidReleaseGroup", "CheckPolicy", "CheckBranchName",
     "CheckHasRemote", "CheckBranchUpToDate", "CheckNoPrereleaseDependencies",
     "CheckIfCurrentReleaseGroupIsReleased", "CheckShouldCommitBump", "CheckShouldCommitDeps"}

CommitGates == {"CheckShouldCommitBump", "CheckShouldCommitDeps"}

\* the invocation i created no branch, made no commit and rewrote no manifest
ExaminesOnly(i) ==
    /\ handled[i].git = <<>>
    /\ ~handled[i].bump
    /\ GraphAfter(i) = handled[i].graph

\* two invocations of one handler on the same inputs post the same actions
SameInputsSamePosts(gates) ==
    \A i, j \in DOMAIN handled :
        (/\ handled[i].state \in gates
         /\ handled[j].state = handled[i].state
         /\ handled[j].ans = handled[i].ans
         /\ handled[j].graph = handled[i].graph
         /\ handled[j].end = handled[i].end)
            => handled[j].posts = handled[i].posts

CallsOf(op) == {i \in DOMAIN calls : calls[i].op = op}

\* the name a unit's tags begin with
TagPrefixOf(unit) ==
    IF unit.type = "Package"
    THEN getPackageShortName(unit.name)
    ELSE <<toLowerCase(unit.kind)>>

\* C28: isReleased fetches the tags before it queries them, and it returns
\* true exactly when the remote has the tag <name>_v<version>, name being the
\* lower-case release group kind or the package's short name and version the
\* unit's current version; whatever other tags the remote has, it returns false.
C28_IsReleased ==
    mode = "names" =>
        /\ \A i \in CallsOf("isReleased") :
              calls[i].result[1] =
                  (TagName(TagPrefixOf(calls[i].unit), calls[i].version) \in calls[i].remote)
        /\ \A k \in DOMAIN gitLog :
              gitLog[k] = IF k % 2 = 1 THEN "fetchTags" ELSE "getTags"

C28_Witness ==
    /\ mode = "names"
    /\ Len(calls) = 2
    /\ calls[1].op = "isReleased" /\ calls[1].unit = MonoRepo("client")
    /\ calls[1].remote = {TagName(<<"Client">>, version)}
    /\ calls[1].result[1] = FALSE
    /\ calls[2].op = "isReleased" /\ calls[2].unit.type = "Package"
    /\ calls[2].remote = {TagName(<<"Client">>, version), TagName(<<"runner">>, version)}
    /\ calls[2].result[1] = TRUE
    /\ gitLog = <<"fetchTags", "getTags", "fetchTags", "getTags">>

\* C29: releaseBranchName(unit, version) is release/<alias>/<branchVersion>:
\* alias is the unit's name, but v2int for client; branchVersion is the whole
\* version when the version is of the virtual patch scheme, major.minor of the
\* embedded version when it is of the internal scheme, and the version's own
\* major.minor otherwise.
C29_ReleaseBranchName ==
    mode = "names" =>
        \A i \in CallsOf("releaseBranchName") :
            LET v == calls[i].version
                unit == calls[i].unit.kind
                alias == IF unit = "client" THEN "v2int" ELSE unit
                branchVersion ==
                    IF v.major = 0 /\ v.patch >= 1000
                    THEN <<v.major, v.minor, v.patch>> \o v.pre
                    ELSE IF v.pre # <<>> /\ v.pre[1] = "internal"
                         THEN <<v.pre[2], v.pre[3]>>
                         ELSE <<v.major, v.minor>>
            IN  calls[i].result[1] = <<"release/", alias, "/", branchVersion>>

C29_Witness ==
    /\ mode = "names"
    /\ Len(calls) = 2
    /\ version.major = 0 /\ version.patch = 1000 + MaxRem
    /\ calls[1].op = "releaseBranchName" /\ calls[1].unit.kind = "client"
    /\ calls[1].result[1] = <<"release/", "v2int", "/", <<0, MaxMinor, 1000 + MaxRem>>>>
    /\ calls[2].op = "releaseBranchName" /\ calls[2].unit.kind = "build-tools"
    /\ calls[2].result[1] = <<"release/", "build-tools", "/", <<0, MaxMinor, 1000 + MaxRem>>>>

\* the states a run is meant to end in
EndStates == PromptStates \cup {"Failed"}

\* C30: the handler of a PromptTo* state or of Failed posts no action and
\* ends the process by exit (unless a call it awaits fails first), it is the
\* last handler the loop invokes, and a machine that is in a PromptTo* state or
\* in Failed stays in that state.
C30_EndStatesEnd ==
    /\ \A i \in DOMAIN handled :
          handled[i].state \in EndStates =>
              /\ handled[i].posts = <<>>
              /\ handled[i].steps = <<>>
              /\ handled[i].end \in {"exit", "throw"}
              /\ handled[i].end = "exit" => (status = "exited" /\ exitCode = 0)
              /\ i = Len(handled)
              /\ status # "running"
              /\ state = handled[i].state
    /\ \A k \in DOMAIN trail : trail[k].from \in EndStates => trail[k].to = trail[k].from

C30_Witness ==
    /\ mode = "loop"
    /\ Len(handled) > 2
    /\ Last(handled).state = "Failed" /\ Last(handled).end = "exit"
    /\ handled[Len(handled) - 1].posts = <<"failure", "success">>
    /\ Len(trail) > 1 /\ Last(trail).from = "Failed" /\ Last(trail).to = "Failed"
    /\ state = "Failed" /\ status = "exited"

(***************************************************************************)
(* Bumping released dependencies                                           *)
(***************************************************************************)
\* the invocations of the DoBumpReleasedDependencies handler that returned
BumpsOfReleasedDeps ==
    {i \in 1..Len(handled) :
        handled[i].state = "DoBumpReleasedDependencies" /\ handled[i].end = "return"}

C32_NoUnhandledState ==
    mode = "loop" =>
        /\ \A i \in 1..Len(handled) :
              /\ handled[i].state \in Recognized(cmd)
              /\ handled[i].end # "unhandled"
        /\ (status = "running" => state \in Recognized(cmd))
        /\ status # "error"

\* the report names no release group and no package
NothingPending(r) == r.releaseGroups = {} /\ r.packages = {}

\* C33: in every run of the release command the DoReleaseGroupBumpPatch
\* handler is invoked only after the CheckNoPrereleaseDependencies handler
\* ran in that run and its report named no pending pre-release dependency,
\* and the manifests it starts from have none pending.
C33_PatchBumpAfterCleanReport ==
    (mode = "loop" /\ cmd = "release") =>
        \A j \in 1..Len(handled) :
            handled[j].state = "DoReleaseGroupBumpPatch" =>
                /\ \E i \in 1..(j - 1) :
                      /\ handled[i].state = "CheckNoPrereleaseDependencies"
                      /\ handled[i].report # <<>>
                      /\ NothingPending(handled[i].report[1])
                /\ NothingPending(getPreReleaseDependencies(handled[j].graph))

\* the invocations of the CheckIfCurrentReleaseGroupIsReleased handler in
\* which isReleased answered ans
IsReleasedAnswered(ans) ==
    {i \in 1..Len(handled) :
        /\ handled[i].state = "CheckIfCurrentReleaseGroupIsReleased"
        /\ handled[i].end = "return"
        /\ handled[i].ans = ans}

\* C34: in every run of the release command the DoReleaseGroupBumpPatch
\* handler is invoked only after the CheckIfCurrentReleaseGroupIsReleased
\* handler ran in that run with isReleased answering true; when isReleased
\* answers false the machine goes to PromptToRelease and stays there, and no
\* manifest is rewritten in the run.
C34_PatchBumpOnlyWhenReleased ==
    (mode = "loop" /\ cmd = "release") =>
        /\ \A j \in 1..Len(handled) :
              handled[j].state = "DoReleaseGroupBumpPatch" =>
                  \E i \in IsReleasedAnswered(TRUE) : i < j
        /\ \A i \in IsReleasedAnswered(FALSE) :
              /\ state = "PromptToRelease"
              /\ ~bumped
              /\ depRange = handled[1].graph
              /\ \A j \in 1..Len(handled) :
                    /\ handled[j].state # "DoReleaseGroupBumpPatch"
                    /\ ~handled[j].bump
                    /\ (j > i => handled[j].state = "PromptToRelease" /\ handled[j].end = "exit")

\* isReleased answered false and the run ended at the release prompt
C34_Witness ==
    /\ mode = "loop"
    /\ cmd = "release"
    /\ IsReleasedAnswered(FALSE) # {}
    /\ status = "exited"
    /\ state = "PromptToRelease"
    /\ Last(handled).state = "PromptToRelease"
    /\ ~bumped

\* C35: if shouldCommit is false the engine makes no createBranch and no
\* commit call, whichever of CheckShouldCommitBump, CheckShouldCommitDeps
\* and CheckShouldCommitReleasedDepsBump it handles.
C35_NoCommitUnlessShouldCommit ==
    ~shouldCommit =>
        /\ gitLog = <<>>
        /\ \A i \in 1..Len(handled) : handled[i].git = <<>>

\* C36: whenever the DoBumpReleasedDependencies handler runs, its assertion
\* holds and the report it has just recomputed names at least one pending
\* release group or package.
C36_BumpSeesPendingDependencies ==
    mode = "loop" =>
        \A i \in 1..Len(handled) :
            (handled[i].state = "DoBumpReleasedDependencies" /\ handled[i].report # <<>>) =>
                /\ handled[i].end # "assert"
                /\ ~NothingPending(handled[i].report[1])

\* the invocations of the DoBumpReleasedDependencies handler
BumpsOfReleasedDepsHandled ==
    {i \in 1..Len(handled) : handled[i].state = "DoBumpReleasedDependencies"}

LexLess(u, v) ==
    \/ u.major < v.major
    \/ u.major = v.major /\ u.minor < v.minor
    \/ u.major = v.major /\ u.minor = v.minor /\ u.patch < v.patch

\* C38: for every version v classified as virtual-patch (major 0, patch at
\* least 1000) and every bump type t of major, minor and patch,
\* bumpVirtualPatchVersion(t, v) is again classified as virtual-patch and is
\* greater than v in (major, minor, patch) lexicographic order.
C38_BumpClosedAndIncreasing ==
    \A t \in {"major", "minor", "patch"} :
        \A i \in Bumps(t) :
            LET v == calls[i].arg
            IN  (v.major = 0 /\ v.patch >= 1000) =>
                    /\ calls[i].result.ok
                    /\ LET w == calls[i].result.value[1]
                       IN  /\ w.major = 0 /\ w.patch >= 1000
                           /\ LexLess(v, w)

\* 0.1.1002 was bumped by 'major' to 0.2.1000 and that by 'minor' to 0.2.2000
C38_Witness ==
    /\ Len(calls) = 2
    /\ 1 \in Bumps("major") /\ 2 \in Bumps("minor")
    /\ calls[1].arg = [major |-> 0, minor |-> 1, patch |-> 1002]
    /\ calls[1].result.value = <<[major |-> 0, minor |-> 2, patch |-> 1000]>>
    /\ calls[2].arg = [major |-> 0, minor |-> 2, patch |-> 1000]
    /\ calls[2].result.value = <<[major |-> 0, minor |-> 2, patch |-> 2000]>>

\* the pairs of toVirtualPatchScheme calls made on versions that are not
\* classified as virtual-patch and have a patch below 1000
ConvertedPairs ==
    {p \in (DOMAIN calls) \X (DOMAIN calls) :
        \A k \in 1..2 :
            /\ calls[p[k]].op = "toVirtualPatchScheme"
            /\ ~(calls[p[k]].arg.major = 0 /\ calls[p[k]].arg.patch >= 1000)
            /\ calls[p[k]].arg.patch < 1000}

\* C39, as stated: for all versions u and v that are not virtual-patch and
\* have patch < 1000, if u is less than v in (major, minor, patch) order then
\* toVirtualPatchScheme(u) is less than or equal to toVirtualPatchScheme(v),
\* and distinct inputs map to distinct outputs.
C39_OrderPreserved ==
    \A p \in ConvertedPairs :
        LET u == calls[p[1]].arg
            v == calls[p[2]].arg
            tu == calls[p[1]].result.value[1]
            tv == calls[p[2]].result.value[1]
        IN  /\ LexLess(u, v) => (LexLess(tu, tv) \/ tu = tv)
            /\ u # v => tu # tv

\* u and v have the same major component, u has minor 0 and v has minor 1
FirstMinors(u, v) == u.major = v.major /\ u.minor = 0 /\ v.minor = 1

\* C39, amended: for all such u less than v, toVirtualPatchScheme(u) is less
\* than toVirtualPatchScheme(v), except when u and v have the same major
\* component, u has minor 0 and v has minor 1: both are then encoded with
\* base 1, so the two results differ by the patches alone.
C39_OrderPreservedButFirstMinors ==
    \A p \in ConvertedPairs :
        LET u == calls[p[1]].arg
            v == calls[p[2]].arg
            tu == calls[p[1]].result.value[1]
            tv == calls[p[2]].result.value[1]
        IN  LexLess(u, v) =>
                /\ calls[p[1]].result.ok /\ calls[p[2]].result.ok
                /\ ~FirstMinors(u, v) => LexLess(tu, tv)
                /\ FirstMinors(u, v) =>
                      /\ tu.major = tv.major /\ tu.minor = tv.minor
                      /\ tu.patch - tv.patch = u.patch - v.patch

\* 1.0.2 and 1.2.1 were converted to 0.1.1002 and 0.1.2001
C39_Witness ==
    /\ Len(calls) = 2
    /\ <<1, 2>> \in ConvertedPairs
    /\ calls[1].arg = [major |-> 1, minor |-> 0, patch |-> 2]
    /\ calls[2].arg = [major |-> 1, minor |-> 2, patch |-> 1]
    /\ calls[1].result.value = <<[major |-> 0, minor |-> 1, patch |-> 1002]>>
    /\ calls[2].result.value = <<[major |-> 0, minor |-> 1, patch |-> 2001]>>

====
